---- MODULE Spec2Model ----
(***************************************************************************)
(* WikiTok continuous feed engine.                                         *)
(*                                                                         *)
(*   SpecRetry  fetchWithRetry and its callers (lib/wikipedia.ts)          *)
(*   SpecBatch  fetchRandomSummaries and the cards it builds               *)
(*   SpecBackgrounds  the per-card background cache (lib/backgrounds.ts)   *)
(*   Spec       FeedManager, the card queue (lib/feed.ts)                  *)
(*   SpecNotify FeedManager and its subscribers                            *)
(*   SpecVirt   Feed, the three-slot virtualizer (components/Feed.tsx)     *)
(*   SpecScroll Feed's scroll listeners: scrollend and the debounce timer  *)
(*   SpecApp    App: the offline banner and its Retry button               *)
(*   SpecFetchFair  fetchMore carried by fetchWithRetry, with fairness     *)
(*   SpecImage  CardImage, the two-buffer image swapper                    *)
(*   SpecVideo  Background, the two-buffer video swapper                   *)
(*                                                                         *)
(* Each specification moves its own group of variables and leaves the      *)
(* other groups as Init set them.                                          *)
(***************************************************************************)
EXTENDS Integers, Sequences, FiniteSets, TLC

VARIABLES
    \* ---- fetchWithRetry (one request at a time)
    rpc,            \* position of the request: idle / fetch / sleep / done
    caller,         \* fetchRandomSummary ("random") or fetchRelatedPages ("related")
    maxRetries, baseDelayMs,
    attempt,        \* loop variable of fetchWithRetry
    lastResponse,   \* <<>> (undefined) or <<status>>
    lastError,      \* "none" or the error last caught / built
    online,         \* navigator.onLine
    aborted,        \* options.signal.aborted
    fetchCalls,     \* network attempts of the current request
    delays,         \* backoff delays slept by the current request, in order
    answers,        \* what each attempt of the current request came back with
    result,         \* outcome of fetchWithRetry
    callerResult,   \* outcome seen by the caller of fetchRandomSummary / fetchRelatedPages
    onlineAtCall,   \* navigator.onLine when the request was made
    \* ---- FeedManager
    cards,              \* this.cards: sequence of [id, fetchedAt]
    seenIds,            \* this.seenIds
    isLoading,          \* this.isLoading
    error,              \* this.error: "null" or a message
    topicMode,          \* this.topicMode
    currentTopicTitle,  \* this.currentTopicTitle: "null" or a title
    cache,              \* the cards persisted in localStorage (lib/cache.ts)
    inflight,           \* activations of fetchMore suspended at an await
    lastOp,             \* the operation that ran last, and whether it issued a fetch
    \* ---- subscribers of the FeedManager
    callbacks,          \* this.callbacks
    subscribers,        \* the callbacks whose unsubscribe function has not been called
    delivered,          \* per callback: the arguments of its last invocation
    invoked,            \* per callback: its invocations during the last turn
    \* ---- CardImage (one instance) and the module-level loadedImageUrls
    imageMounted,       \* the instance is mounted
    src, nextSrc,       \* props
    activeSlot,         \* "A" / "B" (state and activeSlotRef)
    slotASrc, slotBSrc, \* "null" or a url
    slotALoaded, slotBLoaded,
    prevSrcRef, prevNextSrcRef, pendingSwapSrcRef,
    loadedImageUrls,    \* urls that completed an <img> load event
    loadDue,            \* per slot: the browser still owes a load event for the slot's src
    passive,            \* <<>> or the render whose nextSrc effect has not run yet
    \* ---- Background (components/Background.tsx, the instance Feed renders)
    configSrc, nextConfigSrc,       \* config.src / nextConfig.src, "null" unless a video
    videoActiveSlot,                \* activeSlot (state and activeSlotRef)
    videoSlotASrc, videoSlotBSrc,   \* slotASrc / slotBSrc: "null" or a url
    nextVideoReady,
    prevConfigSrcRef, prevNextConfigSrcRef,
    videoPendingSwapSrcRef,         \* pendingSwapSrcRef
    canPlayDue,         \* per slot: the <video> still owes a canplay event for its src
    videoPassive,       \* <<>> or the render whose nextConfig effect has not run yet
    \* ---- App and Feed (the cards and isLoading props are the manager's)
    showIntro,          \* App state
    currentIndex,       \* Feed state, 0-based
    slots,              \* Feed state: <<prev, current, next>>
    scrollTop,          \* container.scrollTop
    isResettingScroll, isUserInteracting,   \* refs
    scrollProgress,     \* in percent
    scrollDirection,    \* "up" / "down" / "null"
    effectDeps,         \* <<>> or the render whose passive effects ran last
    \* ---- fetchRandomSummaries (one batch at a time)
    promises,           \* one entry per fetchRandomSummary call of the batch
    summaries,          \* outcome of fetchRandomSummaries
    \* ---- lib/backgrounds.ts, the video list of lib/pexels.ts and App's effect
    backgroundCache,    \* card id -> background, NoBackground when not in the map
    cachedVideos,       \* the video list is non-empty
    initPromise,        \* initializeVideos: idle / fetching / resolved / done
    hasAppliedVideoBackgrounds,     \* App ref
    firstBackground,    \* per card id, what getBackgroundForCard returned first
    \* ---- Feed's scroll listeners
    scrollTimeout,      \* the 160 ms timer of onScroll is pending
    scrollEndDue,       \* the container owes a scrollend event
    supportsScrollEnd,  \* 'onscrollend' in window
    settles,            \* the settle signals handled since the last scroll event
    \* ---- App
    isOffline,          \* App state, set by the window's offline / online events
    beforeRetry,        \* <<>> or <<cards, cache>> as they were when Retry was pressed
    \* ---- the calls a settle step makes
    ttsState,           \* tts._state: idle / speaking / paused
    prefetchCalls       \* the arguments of the maybePreFetch calls of the last settle step

retryVars == <<rpc, caller, maxRetries, baseDelayMs, attempt, lastResponse, lastError,
               online, aborted, fetchCalls, delays, answers, result, callerResult,
               onlineAtCall>>

feedVars == <<cards, seenIds, isLoading, error, topicMode, currentTopicTitle, cache,
              inflight, lastOp>>

imageVars == <<imageMounted, src, nextSrc, activeSlot, slotASrc, slotBSrc, slotALoaded,
               slotBLoaded, prevSrcRef, prevNextSrcRef, pendingSwapSrcRef, loadedImageUrls,
               loadDue, passive>>

virtVars == <<showIntro, currentIndex, slots, scrollTop, isResettingScroll,
              isUserInteracting, scrollProgress, scrollDirection, effectDeps>>

subVars == <<callbacks, subscribers, delivered, invoked>>

videoVars == <<configSrc, nextConfigSrc, videoActiveSlot, videoSlotASrc, videoSlotBSrc,
               nextVideoReady, prevConfigSrcRef, prevNextConfigSrcRef,
               videoPendingSwapSrcRef, canPlayDue, videoPassive>>

batchVars == <<promises, summaries>>

bgVars == <<backgroundCache, cachedVideos, initPromise, hasAppliedVideoBackgrounds,
            firstBackground>>

scrollVars == <<scrollTimeout, scrollEndDue, supportsScrollEnd, settles>>

appVars == <<isOffline, beforeRetry>>

callVars == <<ttsState, prefetchCalls>>

vars == <<retryVars, feedVars, imageVars, virtVars, subVars, videoVars, batchVars,
          bgVars, scrollVars, appVars, callVars>>

\* what each component leaves alone
nonRetryVars == <<feedVars, imageVars, virtVars, subVars, videoVars, batchVars,
    bgVars, scrollVars, appVars, callVars>>
nonFeedVars == <<retryVars, imageVars, virtVars, subVars, videoVars, batchVars,
    bgVars, scrollVars, appVars, callVars>>
nonImageVars == <<retryVars, feedVars, virtVars, subVars, videoVars, batchVars,
    bgVars, scrollVars, appVars, callVars>>
nonVirtVars == <<retryVars, imageVars, subVars, videoVars, batchVars,
    bgVars, scrollVars, appVars, callVars>>
nonNotifyVars == <<retryVars, imageVars, virtVars, videoVars, batchVars,
    bgVars, scrollVars, appVars, callVars>>
nonVideoVars == <<retryVars, feedVars, imageVars, virtVars, subVars, batchVars,
    bgVars, scrollVars, appVars, callVars>>
nonBatchVars == <<retryVars, feedVars, imageVars, virtVars, subVars, videoVars,
    bgVars, scrollVars, appVars, callVars>>
nonBgVars == <<retryVars, feedVars, imageVars, virtVars, subVars, videoVars, batchVars,
    scrollVars, appVars, callVars>>
nonScrollVars == <<retryVars, imageVars, subVars, videoVars, batchVars, bgVars, appVars>>
nonAppVars == <<retryVars, imageVars, virtVars, subVars, videoVars, batchVars, bgVars,
    scrollVars, callVars>>

Min(a, b) == IF a <= b THEN a ELSE b
Max(a, b) == IF a >= b THEN a ELSE b

(***************************************************************************)
(* Bounds of the model                                                     *)
(***************************************************************************)
MaxRetriesBound == 2
MaxBatch == 4       \* cards one call of the content source returns, at most

(***************************************************************************)
(* lib/wikipedia.ts                                                        *)
(***************************************************************************)
DEFAULT_MAX_RETRIES == 3
MAX_BACKOFF_MS == 30000

\* HTTP statuses an attempt may answer with
Statuses == {200, 404, 429, 499, 500, 599, 600}
\* what fetchWithTimeout may reject with: a TypeError whose message contains
\* "fetch" (Chrome, Firefox), a TypeError whose message does not (Safari's
\* "Load failed"), an AbortError raised by the per-attempt timeout, an
\* AbortError raised through the caller's signal
Rejections == {"TypeError:fetch", "TypeError:other", "AbortError:timeout", "AbortError:signal"}
MaxRetriesChoices == 0 .. MaxRetriesBound
BaseDelays == {1000, 16000}
\* Math.random() in thousandths: 0 <= r < 1
Randoms == {0, 500, 999}

ResponseOk(status) == status >= 200 /\ status <= 299

\* mutant: every status from 400 up is treated as retryable
isRetryableErrorAll4xx(err, response) ==
    IF err = "TypeError:fetch" THEN TRUE
    ELSE IF err \in {"AbortError:timeout", "AbortError:signal"} THEN FALSE
    ELSE IF response # <<>> THEN response[1] >= 400
    ELSE FALSE

\* mutant: an attempt abandoned by its timeout is retried
isRetryableErrorTimeoutRetried(err, response) ==
    IF err \in {"TypeError:fetch", "AbortError:timeout"} THEN TRUE
    ELSE IF err = "AbortError:signal" THEN FALSE
    ELSE IF response # <<>>
         THEN IF response[1] = 429 THEN TRUE
              ELSE IF response[1] >= 500 /\ response[1] < 600 THEN TRUE
              ELSE FALSE
    ELSE FALSE

isRetryableError(err, response) ==
    IF err = "TypeError:fetch" THEN TRUE
    ELSE IF err \in {"AbortError:timeout", "AbortError:signal"} THEN FALSE
    ELSE IF response # <<>>
         THEN IF response[1] = 429 THEN TRUE
              ELSE IF response[1] >= 500 /\ response[1] < 600 THEN TRUE
              ELSE FALSE
    ELSE FALSE

\* mutant: the delay is not capped
calculateBackoffDelayUncapped(att, base, rnd) ==
    LET exponentialDelay == base * (2 ^ att)
        jitter == (exponentialDelay * rnd * 25) \div 100000
    IN  exponentialDelay + jitter

\* baseDelay * 2^attempt plus 0..25% jitter, capped at 30 s (whole milliseconds)
calculateBackoffDelay(att, base, rnd) ==
    LET exponentialDelay == base * (2 ^ att)
        jitter == (exponentialDelay * rnd * 25) \div 100000
    IN  Min(exponentialDelay + jitter, MAX_BACKOFF_MS)

NoResult == [kind |-> "none", status |-> 0, error |-> "none"]
Returned(status) == [kind |-> "response", status |-> status, error |-> "none"]
Thrown(err) == [kind |-> "throw", status |-> 0, error |-> err]

\* mutant: fetchRelatedPages treats 404 like any other failure status
CallerOutcomeThrowsOn404(who, res) ==
    IF res.kind = "throw" THEN res
    ELSE IF ResponseOk(res.status) THEN [kind |-> "cards", status |-> res.status, error |-> "none"]
    ELSE [kind |-> "throw", status |-> res.status, error |-> "Error:Failed to fetch"]

\* fetchRandomSummary / fetchRelatedPages around the outcome of fetchWithRetry
CallerOutcome(who, res) ==
    IF res.kind = "throw" THEN res
    ELSE IF ResponseOk(res.status) THEN [kind |-> "cards", status |-> res.status, error |-> "none"]
    ELSE IF who = "related" /\ res.status = 404
         THEN [kind |-> "empty", status |-> res.status, error |-> "none"]
    ELSE [kind |-> "throw", status |-> res.status, error |-> "Error:Failed to fetch"]

\* the request ends: fetchWithRetry returns or throws
Finish(res) ==
    /\ rpc' = "done"
    /\ result' = res
    /\ callerResult' = CallerOutcome(caller, res)

\* mutant: the loop runs one iteration too many
LoopExhaustedOffByOne(att) == att > maxRetries + 1

\* the for loop's condition attempt <= maxRetries fails
LoopExhausted(att) == att > maxRetries

\* mutant: the offline check is missing
IsOfflineNever == FALSE

\* typeof navigator !== 'undefined' && !navigator.onLine
IsOffline == ~online

\* mutant: the check of the caller's signal is missing
LoopTopNoAbortCheck(att) ==
    IF LoopExhausted(att)
    THEN /\ IF lastResponse' # <<>> THEN Finish(Returned(lastResponse'[1]))
                                    ELSE Finish(Thrown(lastError'))
         /\ UNCHANGED fetchCalls
    ELSE IF IsOffline
    THEN Finish(Thrown("Error:No network connection")) /\ UNCHANGED fetchCalls
    ELSE /\ rpc' = "fetch"
         /\ fetchCalls' = fetchCalls + 1
         /\ UNCHANGED <<result, callerResult>>

\* top of the for loop for iteration att, up to the await of fetchWithTimeout
LoopTop(att) ==
    IF LoopExhausted(att)
    THEN \* all retries exhausted
         /\ IF lastResponse' # <<>> THEN Finish(Returned(lastResponse'[1]))
                                    ELSE Finish(Thrown(lastError'))
         /\ UNCHANGED fetchCalls
    ELSE IF IsOffline
    THEN Finish(Thrown("Error:No network connection")) /\ UNCHANGED fetchCalls
    ELSE IF aborted
    THEN Finish(Thrown("AbortError:signal")) /\ UNCHANGED fetchCalls
    ELSE /\ rpc' = "fetch"
         /\ fetchCalls' = fetchCalls + 1
         /\ UNCHANGED <<result, callerResult>>

\* a caller starts a request: fetchWithRetry runs up to its first await
Request(who, retries, base) ==
    /\ rpc = "idle"
    /\ caller' = who
    /\ maxRetries' = retries
    /\ baseDelayMs' = base
    /\ attempt' = 0
    /\ lastResponse' = <<>>
    /\ lastError' = "none"
    /\ onlineAtCall' = online
    /\ LoopTop(0)
    /\ UNCHANGED <<online, aborted, delays, answers>>
    /\ UNCHANGED nonRetryVars

\* mutant: the next attempt follows at once, without a backoff wait
AfterFailureNoSleep(rnd) ==
    /\ attempt' = attempt + 1
    /\ LoopTop(attempt + 1)
    /\ UNCHANGED delays

\* after a retryable failure of iteration `attempt`: sleep, or leave the loop
AfterFailure(rnd) ==
    IF attempt < maxRetries
    THEN /\ rpc' = "sleep"
         /\ delays' = Append(delays, calculateBackoffDelay(attempt, baseDelayMs, rnd))
         /\ UNCHANGED <<attempt, fetchCalls, result, callerResult>>
    ELSE /\ attempt' = attempt + 1
         /\ LoopTop(attempt + 1)
         /\ UNCHANGED delays

\* the attempt in flight resolves with a response
AttemptResponds(status, rnd) ==
    /\ rpc = "fetch"
    /\ answers' = Append(answers, <<"status", status>>)
    /\ IF ResponseOk(status)
       THEN /\ Finish(Returned(status))
            /\ UNCHANGED <<attempt, lastResponse, lastError, fetchCalls, delays>>
       ELSE IF ~isRetryableError("null", <<status>>)
       THEN /\ Finish(Returned(status))
            /\ UNCHANGED <<attempt, lastResponse, lastError, fetchCalls, delays>>
       ELSE /\ lastResponse' = <<status>>
            /\ lastError' = "Error:HTTP"
            /\ AfterFailure(rnd)
    /\ UNCHANGED <<caller, maxRetries, baseDelayMs, online, aborted, onlineAtCall>>
    /\ UNCHANGED nonRetryVars

\* the catch block of the loop, entered with the error the attempt rejected with
Catch(err, rnd) ==
    /\ answers' = Append(answers, <<"error", err>>)
    /\ lastError' = err
    /\ IF ~isRetryableError(err, <<>>)
       THEN /\ Finish(Thrown(err))
            /\ UNCHANGED <<attempt, lastResponse, fetchCalls, delays>>
       ELSE /\ UNCHANGED lastResponse
            /\ AfterFailure(rnd)

\* the attempt in flight rejects: a network failure, or the per-attempt
\* timeout of fetchWithTimeout aborts the controller
AttemptRejects(err, rnd) ==
    /\ rpc = "fetch"
    /\ err # "AbortError:signal"
    /\ Catch(err, rnd)
    /\ UNCHANGED <<caller, maxRetries, baseDelayMs, online, aborted, onlineAtCall>>
    /\ UNCHANGED nonRetryVars

\* the backoff sleep ends: attempt++ and the next iteration starts
SleepDone ==
    /\ rpc = "sleep"
    /\ attempt' = attempt + 1
    /\ UNCHANGED <<lastResponse, lastError>>
    /\ LoopTop(attempt + 1)
    /\ UNCHANGED <<caller, maxRetries, baseDelayMs, online, aborted, delays, answers,
                   onlineAtCall>>
    /\ UNCHANGED nonRetryVars

\* the device goes offline or comes back
SetOnline(b) ==
    /\ online # b
    /\ online' = b
    /\ UNCHANGED <<rpc, caller, maxRetries, baseDelayMs, attempt, lastResponse, lastError,
                   aborted, fetchCalls, delays, answers, result, callerResult, onlineAtCall>>
    /\ UNCHANGED nonRetryVars

\* the caller triggers its cancellation signal. With an attempt in flight the
\* listener fetchWithTimeout registered aborts the controller, the pending
\* fetch rejects with an AbortError and the catch block runs before any other
\* task does
Abort(rnd) ==
    /\ ~aborted
    /\ aborted' = TRUE
    /\ IF rpc = "fetch"
       THEN Catch("AbortError:signal", rnd)
       ELSE UNCHANGED <<rpc, attempt, lastResponse, lastError, fetchCalls, delays, answers,
                        result, callerResult>>
    /\ UNCHANGED <<caller, maxRetries, baseDelayMs, online, onlineAtCall>>
    /\ UNCHANGED nonRetryVars

\* the caller has consumed the outcome; the next request has a fresh signal
NextRequest ==
    /\ rpc = "done"
    /\ rpc' = "idle"
    /\ aborted' = FALSE
    /\ fetchCalls' = 0
    /\ delays' = <<>>
    /\ answers' = <<>>
    /\ result' = NoResult
    /\ callerResult' = NoResult
    /\ UNCHANGED <<caller, maxRetries, baseDelayMs, attempt, lastResponse, lastError,
                   online, onlineAtCall>>
    /\ UNCHANGED nonRetryVars

RetryIdle ==
    /\ rpc = "idle"
    /\ caller = "random"
    /\ maxRetries = DEFAULT_MAX_RETRIES
    /\ baseDelayMs = 1000
    /\ attempt = 0
    /\ lastResponse = <<>>
    /\ lastError = "none"
    /\ online = TRUE
    /\ aborted = FALSE
    /\ fetchCalls = 0
    /\ delays = <<>>
    /\ answers = <<>>
    /\ result = NoResult
    /\ callerResult = NoResult
    /\ onlineAtCall = TRUE

DoRequest == \E who \in {"random", "related"}, n \in MaxRetriesChoices, b \in BaseDelays :
                Request(who, n, b)
DoAttemptResponds == \E s \in Statuses, r \in Randoms : AttemptResponds(s, r)
DoAttemptRejects == \E e \in Rejections, r \in Randoms : AttemptRejects(e, r)
DoSetOnline == \E b \in BOOLEAN : SetOnline(b)
DoAbort == \E r \in Randoms : Abort(r)

NextRetry ==
    \/ DoRequest
    \/ DoAttemptResponds
    \/ DoAttemptRejects
    \/ SleepDone
    \/ DoSetOnline
    \/ DoAbort
    \/ NextRequest

(***************************************************************************)
(* lib/feed.ts: FeedManager                                                *)
(***************************************************************************)
PREFETCH_THRESHOLD == 3
INITIAL_FETCH_COUNT == 10
PREFETCH_COUNT == 5
CACHE_LIMIT == 50

\* two articles are enough to tell a card seen before from a new one
Ids == {1, 2}
Titles == {"A", "B"}
\* the articles a call of the content source may return: up to MaxBatch of
\* them, in any order, the same article possibly more than once
IdBatches == UNION {[1 .. n -> Ids] : n \in 0 .. MaxBatch}
\* responseToCard builds one card object per article returned; fetchedAt
\* (Date.now()) is modelled by the position in the batch, so that two cards
\* built for the same article by one batch are two cards
MakeCards(ids) == [k \in 1 .. Len(ids) |-> [id |-> ids[k], fetchedAt |-> k]]
Batches == {MakeCards(ids) : ids \in IdBatches}
\* messages of the errors fetchRelatedPages may throw
RelatedFailures == {"No network connection", "Failed to fetch related pages", "Failed to fetch"}
\* the one error fetchRandomSummaries throws (every single request failed)
RandomFailures == {"Failed to fetch summaries"}

IdsOf(cs) == {cs[i].id : i \in 1 .. Len(cs)}
RemoveAt(q, i) == SubSeq(q, 1, i - 1) \o SubSeq(q, i + 1, Len(q))

\* lib/cache.ts
loadCachedCards == cache
saveCachedCards(cs) == SubSeq(cs, 1, Min(Len(cs), CACHE_LIMIT))
addToCache(newCards) ==
    LET existing == loadCachedCards
        existingIds == IdsOf(existing)
        uniqueNewCards == SelectSeq(newCards, LAMBDA c : c.id \notin existingIds)
    IN  saveCachedCards(existing \o uniqueNewCards)

\* lastOp: the operation, whether it issued a call of the content source,
\* and whether a fetch was in flight when it ran
Op(name, started, wasLoading) == [op |-> name, started |-> started, wasLoading |-> wasLoading]

\* mutant: the topic filter is ignored, every fetch asks for random cards
FetchActivationAlwaysRandom(count, tm, tt, cs) ==
    [stage |-> "random", count |-> count, title |-> "null", startCards |-> cs]

\* the activation of fetchMore up to its first await: which source it calls
FetchActivation(count, tm, tt, cs) ==
    [stage |-> IF tm /\ tt # "null" THEN "related" ELSE "random",
     count |-> count, title |-> IF tm /\ tt # "null" THEN tt ELSE "null",
     startCards |-> cs]

\* mutant: fetchMore without its isLoading guard
fetchMoreUnguarded(count, tm, tt, cs, err) ==
    /\ isLoading' = TRUE
    /\ error' = "null"
    /\ inflight' = Append(inflight, FetchActivation(count, tm, tt, cs))

\* fetchMore(count), called with topicMode tm, currentTopicTitle tt, cards cs
\* and error err as the caller has just set them
fetchMore(count, tm, tt, cs, err) ==
    IF isLoading
    THEN /\ error' = err
         /\ UNCHANGED <<isLoading, inflight>>
    ELSE /\ isLoading' = TRUE
         /\ error' = "null"
         /\ inflight' = Append(inflight, FetchActivation(count, tm, tt, cs))

\* constructor: a page load builds the manager from the persisted cache;
\* an expired or unreadable cache reads as empty
Construct(expired) ==
    LET cached == IF expired THEN <<>> ELSE loadCachedCards IN
    /\ cards' = cached
    /\ seenIds' = IdsOf(cached)
    /\ cache' = cached
    /\ isLoading' = FALSE
    /\ error' = "null"
    /\ topicMode' = FALSE
    /\ currentTopicTitle' = "null"
    /\ inflight' = <<>>
    /\ lastOp' = Op("construct", FALSE, FALSE)

\* mutant: initialize fetches whether or not cards were restored
initializeAlways ==
    /\ fetchMore(INITIAL_FETCH_COUNT, topicMode, currentTopicTitle, cards, error)
    /\ lastOp' = Op("initialize", ~isLoading, isLoading)
    /\ UNCHANGED <<cards, seenIds, topicMode, currentTopicTitle, cache>>

initialize ==
    /\ IF Len(cards) = 0
       THEN fetchMore(INITIAL_FETCH_COUNT, topicMode, currentTopicTitle, cards, error)
       ELSE UNCHANGED <<isLoading, error, inflight>>
    /\ lastOp' = Op("initialize", Len(cards) = 0 /\ ~isLoading, isLoading)
    /\ UNCHANGED <<cards, seenIds, topicMode, currentTopicTitle, cache>>

\* mutant: the threshold is compared with < instead of <=
maybePreFetchEffectStrict(index) ==
    LET remaining == Len(cards) - index - 1 IN
    IF remaining < PREFETCH_THRESHOLD /\ ~isLoading
    THEN fetchMore(PREFETCH_COUNT, topicMode, currentTopicTitle, cards, error)
    ELSE UNCHANGED <<isLoading, error, inflight>>

\* what maybePreFetch(index) does to the manager
maybePreFetchEffect(index) ==
    LET remaining == Len(cards) - index - 1 IN
    IF remaining <= PREFETCH_THRESHOLD /\ ~isLoading
    THEN fetchMore(PREFETCH_COUNT, topicMode, currentTopicTitle, cards, error)
    ELSE UNCHANGED <<isLoading, error, inflight>>

maybePreFetch(index) ==
    /\ maybePreFetchEffect(index)
    /\ lastOp' = Op("maybePreFetch",
                    Len(cards) - index - 1 <= PREFETCH_THRESHOLD /\ ~isLoading,
                    isLoading)
    /\ UNCHANGED <<cards, seenIds, topicMode, currentTopicTitle, cache>>

enableTopicMode(title) ==
    /\ topicMode' = TRUE
    /\ currentTopicTitle' = title
    /\ fetchMore(PREFETCH_COUNT, TRUE, title, cards, error)
    /\ lastOp' = Op("enableTopicMode", ~isLoading, isLoading)
    /\ UNCHANGED <<cards, seenIds, cache>>

disableTopicMode ==
    /\ topicMode' = FALSE
    /\ currentTopicTitle' = "null"
    /\ lastOp' = Op("disableTopicMode", FALSE, isLoading)
    /\ UNCHANGED <<cards, seenIds, isLoading, error, cache, inflight>>

refresh ==
    /\ cards' = <<>>
    /\ seenIds' = {}
    /\ topicMode' = FALSE
    /\ currentTopicTitle' = "null"
    /\ cache' = saveCachedCards(<<>>)
    /\ fetchMore(INITIAL_FETCH_COUNT, FALSE, "null", <<>>, "null")
    /\ lastOp' = Op("refresh", ~isLoading, isLoading)

\* fetchedAt is only ever compared for equality: the cards that join the
\* queue keep it as their rank in the queue, which keeps them distinct
\* objects, as the Date.now() of responseToCard does
Ranked(cs, base) == [k \in 1 .. Len(cs) |-> [id |-> cs[k].id, fetchedAt |-> base + k]]

\* newCards.filter(c => !this.seenIds.has(c.id))
UniqueCards(newCards) == SelectSeq(newCards, LAMBDA c : c.id \notin seenIds)

\* mutant: the new cards replace the queue instead of extending it
AppendNewCardsReplace(i, newCards) ==
    LET uniqueCards == Ranked(UniqueCards(newCards), Len(cards)) IN
    /\ seenIds' = seenIds \cup IdsOf(uniqueCards)
    /\ cards' = uniqueCards
    /\ cache' = addToCache(uniqueCards)
    /\ isLoading' = FALSE
    /\ inflight' = RemoveAt(inflight, i)
    /\ UNCHANGED <<error, topicMode, currentTopicTitle>>

\* fetchMore after its last await: append, persist, finally
AppendNewCards(i, newCards) ==
    LET uniqueCards == Ranked(UniqueCards(newCards), Len(cards)) IN
    /\ seenIds' = seenIds \cup IdsOf(uniqueCards)
    /\ cards' = cards \o uniqueCards
    /\ cache' = addToCache(uniqueCards)
    /\ isLoading' = FALSE
    /\ inflight' = RemoveAt(inflight, i)
    /\ UNCHANGED <<error, topicMode, currentTopicTitle>>

\* fetchRelatedPages resolves: with cards, or with [] and fetchMore falls
\* back to fetchRandomSummaries(count)
RelatedResolves(i, newCards) ==
    /\ i \in 1 .. Len(inflight)
    /\ inflight[i].stage = "related"
    /\ IF Len(newCards) = 0
       THEN /\ inflight' = [inflight EXCEPT ![i].stage = "random"]
            /\ lastOp' = Op("fallback", TRUE, isLoading)
            /\ UNCHANGED <<cards, seenIds, isLoading, error, topicMode, currentTopicTitle,
                           cache>>
       ELSE /\ AppendNewCards(i, newCards)
            /\ lastOp' = Op("fetched", FALSE, isLoading)

\* fetchRandomSummaries resolves with the cards of the requests that succeeded
RandomResolves(i, newCards) ==
    /\ i \in 1 .. Len(inflight)
    /\ inflight[i].stage = "random"
    /\ Len(newCards) >= 1
    /\ Len(newCards) <= inflight[i].count
    /\ AppendNewCards(i, newCards)
    /\ lastOp' = Op("fetched", FALSE, isLoading)

\* mutant: the finally block that clears isLoading is missing
FetchRejectsNoFinally(i, message) ==
    /\ i \in 1 .. Len(inflight)
    /\ message \in (IF inflight[i].stage = "related" THEN RelatedFailures ELSE RandomFailures)
    /\ error' = message
    /\ inflight' = RemoveAt(inflight, i)
    /\ lastOp' = Op("failed", FALSE, isLoading)
    /\ UNCHANGED <<cards, seenIds, isLoading, topicMode, currentTopicTitle, cache>>

\* the awaited source call throws: catch, finally
FetchRejects(i, message) ==
    /\ i \in 1 .. Len(inflight)
    /\ message \in (IF inflight[i].stage = "related" THEN RelatedFailures ELSE RandomFailures)
    /\ error' = message
    /\ isLoading' = FALSE
    /\ inflight' = RemoveAt(inflight, i)
    /\ lastOp' = Op("failed", FALSE, isLoading)
    /\ UNCHANGED <<cards, seenIds, topicMode, currentTopicTitle, cache>>

FeedConstructed ==
    /\ cards = <<>>
    /\ seenIds = {}
    /\ isLoading = FALSE
    /\ error = "null"
    /\ topicMode = FALSE
    /\ currentTopicTitle = "null"
    /\ cache = <<>>
    /\ inflight = <<>>
    /\ lastOp = Op("construct", FALSE, FALSE)

DoConstruct == \E expired \in BOOLEAN : Construct(expired)
DoMaybePreFetch == \E idx \in 0 .. Len(cards) : maybePreFetch(idx)
DoEnableTopicMode == \E t \in Titles : enableTopicMode(t)
DoRelatedResolves == \E i \in 1 .. Len(inflight), b \in Batches : RelatedResolves(i, b)
DoRandomResolves == \E i \in 1 .. Len(inflight), b \in Batches : RandomResolves(i, b)
DoFetchRejects == \E i \in 1 .. Len(inflight), m \in RelatedFailures \cup RandomFailures :
                    FetchRejects(i, m)

(***************************************************************************)
(* lib/wikipedia.ts: fetchRandomSummaries, fetchRandomSummary,             *)
(* responseToCard and fetchImageAttribution                                *)
(***************************************************************************)
\* how the imageinfo request of fetchImageAttribution can end
AttributionOutcomes == {"success", "nonOk", "timeout", "cancellation", "transport",
                        "badJson", "noMetadata"}

\* a WikiCard, as far as the batch is concerned
WikiCard(id, thumbnail, attribution) ==
    [id |-> id, thumbnail |-> thumbnail, imageAttribution |-> attribution]
NoWikiCard == WikiCard(0, FALSE, "undefined")

\* one fetchRandomSummary promise
Pending(stage, card) == [stage |-> stage, card |-> card]
Fulfilled(card) == [stage |-> "fulfilled", card |-> card]
Rejected == [stage |-> "rejected", card |-> NoWikiCard]
Settled(p) == p.stage \in {"fulfilled", "rejected"}

NoSummaries == [kind |-> "none", cards |-> <<>>, message |-> ""]

BatchIdle ==
    /\ promises = <<>>
    /\ summaries = NoSummaries

\* try { fetchWithTimeout; !ok; json(); !info || !ext; return {...} } catch { undefined }
fetchImageAttributionResult(outcome) ==
    IF outcome = "success" THEN "present" ELSE "undefined"

\* the same without the try/catch and the early returns: a failure rejects the promise
responseToCardThrows(p, outcome) ==
    IF outcome = "success"
    THEN Fulfilled(WikiCard(p.card.id, p.card.thumbnail, "present"))
    ELSE Rejected

\* responseToCard after the await of fetchImageAttribution
responseToCard(p, outcome) ==
    Fulfilled(WikiCard(p.card.id, p.card.thumbnail, fetchImageAttributionResult(outcome)))

\* Promise.all instead of Promise.allSettled: one rejection rejects the batch
CollectAll(ps) ==
    IF \E i \in 1 .. Len(ps) : ps[i].stage = "rejected"
    THEN [kind |-> "throw", cards |-> <<>>, message |-> "Failed to fetch summaries"]
    ELSE [kind |-> "cards", cards |-> [i \in 1 .. Len(ps) |-> ps[i].card], message |-> ""]

\* the loop over results, and the throw when no card was pushed
Collect(ps) ==
    LET ok == SelectSeq(ps, LAMBDA p : p.stage = "fulfilled")
        cs == [i \in 1 .. Len(ok) |-> ok[i].card]
    IN IF Len(cs) = 0
       THEN [kind |-> "throw", cards |-> <<>>, message |-> "Failed to fetch summaries"]
       ELSE [kind |-> "cards", cards |-> cs, message |-> ""]

\* Array(count).fill(null).map(() => fetchRandomSummary(options))
fetchRandomSummaries(count) ==
    /\ promises = <<>> /\ summaries.kind = "none"
    /\ promises' = [i \in 1 .. count |-> Pending("summary", NoWikiCard)]
    /\ UNCHANGED summaries

\* fetchRandomSummary: fetchWithRetry returned an OK response, json() parsed;
\* responseToCard awaits fetchImageAttribution when the summary has an image whose
\* file name extractFilenameFromUrl can read
SummaryResponds(i, id, hasImage, hasFilename) ==
    /\ i \in 1 .. Len(promises) /\ promises[i].stage = "summary"
    /\ promises' = [promises EXCEPT ![i] =
           IF hasImage /\ hasFilename
           THEN Pending("attribution", WikiCard(id, TRUE, "undefined"))
           ELSE Fulfilled(WikiCard(id, hasImage, "undefined"))]
    /\ UNCHANGED summaries

\* fetchRandomSummary: fetchWithRetry threw, or the response was not OK
SummaryFails(i) ==
    /\ i \in 1 .. Len(promises) /\ promises[i].stage = "summary"
    /\ promises' = [promises EXCEPT ![i] = Rejected]
    /\ UNCHANGED summaries

\* the imageinfo request of promise i ends
AttributionSettles(i, outcome) ==
    /\ i \in 1 .. Len(promises) /\ promises[i].stage = "attribution"
    /\ promises' = [promises EXCEPT ![i] = responseToCard(promises[i], outcome)]
    /\ UNCHANGED summaries

\* await Promise.allSettled(promises) resumes
AllSettled ==
    /\ summaries.kind = "none"
    /\ \A i \in 1 .. Len(promises) : Settled(promises[i])
    /\ summaries' = Collect(promises)
    /\ UNCHANGED promises

\* the caller has the outcome; the next batch may start
NextBatch ==
    /\ summaries.kind # "none"
    /\ promises' = <<>>
    /\ summaries' = NoSummaries

DoFetchRandomSummaries == \E n \in 0 .. MaxBatch : fetchRandomSummaries(n)
DoSummaryResponds ==
    \E i \in 1 .. Len(promises), id \in Ids, im \in BOOLEAN, fn \in BOOLEAN :
        SummaryResponds(i, id, im, fn)
DoSummaryFails == \E i \in 1 .. Len(promises) : SummaryFails(i)
DoAttributionSettles ==
    \E i \in 1 .. Len(promises), o \in AttributionOutcomes : AttributionSettles(i, o)

NextBatchStep ==
    \/ DoFetchRandomSummaries /\ UNCHANGED nonBatchVars
    \/ DoSummaryResponds /\ UNCHANGED nonBatchVars
    \/ DoSummaryFails /\ UNCHANGED nonBatchVars
    \/ DoAttributionSettles /\ UNCHANGED nonBatchVars
    \/ AllSettled /\ UNCHANGED nonBatchVars
    \/ NextBatch /\ UNCHANGED nonBatchVars

(***************************************************************************)
(* lib/backgrounds.ts: one background per card id                          *)
(***************************************************************************)
\* ids of gradientBackgrounds, and what getRandomVideo can pick
Gradients == {"gradient-ocean", "gradient-sunset", "gradient-forest", "gradient-aurora",
              "gradient-cosmic"}
VideoSrcs == {"v1", "v2"}

BackgroundConfig(type, id) == [type |-> type, id |-> id]
NoBackground == BackgroundConfig("none", "none")

hasVideos == cachedVideos

\* the picks Math.random can make in getRandomBackground
getRandomBackground ==
    IF hasVideos
    THEN {BackgroundConfig("video", v) : v \in VideoSrcs}
    ELSE {BackgroundConfig("gradient", g) : g \in Gradients}

BackgroundsFresh ==
    /\ backgroundCache = [id \in Ids |-> NoBackground]
    /\ cachedVideos = FALSE
    /\ initPromise = "idle"
    /\ hasAppliedVideoBackgrounds = FALSE
    /\ firstBackground = [id \in Ids |-> NoBackground]

\* a render calls getBackgroundForCard(cardId); renders do not run between the
\* resolution of initializeVideos and its then-callback (a microtask)
getBackgroundForCard(cardId, background) ==
    /\ initPromise # "resolved"
    /\ backgroundCache' =
          IF backgroundCache[cardId] # NoBackground THEN backgroundCache
          ELSE [backgroundCache EXCEPT ![cardId] = background]
    /\ firstBackground' =
          IF firstBackground[cardId] # NoBackground THEN firstBackground
          ELSE [firstBackground EXCEPT ![cardId] = backgroundCache'[cardId]]
    /\ UNCHANGED <<cachedVideos, initPromise, hasAppliedVideoBackgrounds>>

clearBackgroundCache == backgroundCache' = [id \in Ids |-> NoBackground]

\* App's mount effect calls initializeVideos(): the list comes from localStorage
\* at once (fromStorage), or the Pexels requests start
initializeVideos(fromStorage) ==
    /\ initPromise = "idle"
    /\ cachedVideos' = fromStorage
    /\ initPromise' = IF fromStorage THEN "resolved" ELSE "fetching"
    /\ UNCHANGED <<backgroundCache, hasAppliedVideoBackgrounds, firstBackground>>

\* Promise.all of fetchVideosForQuery resolves (a failed query counts as [])
VideosFetched(found) ==
    /\ initPromise = "fetching"
    /\ cachedVideos' = found
    /\ initPromise' = "resolved"
    /\ UNCHANGED <<backgroundCache, hasAppliedVideoBackgrounds, firstBackground>>

\* .then() of App's mount effect
VideosInitialized ==
    /\ initPromise = "resolved"
    /\ initPromise' = "done"
    /\ IF ~hasAppliedVideoBackgrounds /\ hasVideos
       THEN /\ hasAppliedVideoBackgrounds' = TRUE
            /\ clearBackgroundCache
       ELSE UNCHANGED <<hasAppliedVideoBackgrounds, backgroundCache>>
    /\ UNCHANGED <<cachedVideos, firstBackground>>

DoGetBackgroundForCard ==
    \E id \in Ids : \E b \in getRandomBackground : getBackgroundForCard(id, b)
DoInitializeVideos == \E st \in BOOLEAN : initializeVideos(st)
DoVideosFetched == \E found \in BOOLEAN : VideosFetched(found)

NextBackgrounds ==
    \/ DoGetBackgroundForCard /\ UNCHANGED nonBgVars
    \/ DoInitializeVideos /\ UNCHANGED nonBgVars
    \/ DoVideosFetched /\ UNCHANGED nonBgVars
    \/ VideosInitialized /\ UNCHANGED nonBgVars
    \* App.handleRefresh: feedManager.refresh() has no part in the map
    \/ refresh /\ UNCHANGED nonFeedVars

(***************************************************************************)
(* FeedManager.subscribe / notify                                          *)
(***************************************************************************)
\* the callbacks App passes to subscribe: a new closure for every run of its
\* effect, which an identity stands for from subscribe to unsubscribe
Callbacks == {1, 2}
NoDelivery == <<>>

\* callback(this.cards, this.isLoading, this.error)
CallbackArgs(cs, loading, err) == <<cs, loading, err>>

\* the invocations of notify() in one turn, each with the state it passes on:
\* every registered callback is invoked once per notify()
Deliver(ds) ==
    /\ invoked' = [cb \in Callbacks |-> IF cb \in callbacks THEN Len(ds) ELSE 0]
    /\ delivered' = IF ds = <<>> THEN delivered
                    ELSE [cb \in Callbacks |->
                             IF cb \in callbacks THEN ds[Len(ds)] ELSE delivered[cb]]
    /\ UNCHANGED <<callbacks, subscribers>>

\* fetchMore up to its first await: notify() once isLoading and error are set
fetchMoreNotifies(cs) ==
    IF isLoading THEN <<>> ELSE <<CallbackArgs(cs, TRUE, "null")>>

\* mutant: the finally block of fetchMore does not notify
settledNotifiesNothing == <<>>

\* fetchMore's finally block: notify() with the state the activation leaves
settledNotifies == <<CallbackArgs(cards', isLoading', error')>>

subscribe(cb) ==
    /\ cb \notin subscribers
    /\ callbacks' = callbacks \cup {cb}
    /\ subscribers' = subscribers \cup {cb}
    /\ delivered' = [delivered EXCEPT ![cb] = CallbackArgs(cards, isLoading, error)]
    /\ invoked' = [c \in Callbacks |-> IF c = cb THEN 1 ELSE 0]
    /\ UNCHANGED feedVars

\* the function subscribe returned; what the callback received is dropped
\* with the closure
unsubscribe(cb) ==
    /\ cb \in subscribers
    /\ callbacks' = callbacks \ {cb}
    /\ subscribers' = subscribers \ {cb}
    /\ delivered' = [delivered EXCEPT ![cb] = NoDelivery]
    /\ invoked' = [c \in Callbacks |-> 0]
    /\ UNCHANGED feedVars

\* a page load: a new manager, nobody subscribed yet
NoSubscribers ==
    /\ callbacks = {}
    /\ subscribers = {}
    /\ delivered = [cb \in Callbacks |-> NoDelivery]
    /\ invoked = [cb \in Callbacks |-> 0]

NotifyConstruct ==
    /\ DoConstruct
    /\ callbacks' = {}
    /\ subscribers' = {}
    /\ delivered' = [cb \in Callbacks |-> NoDelivery]
    /\ invoked' = [cb \in Callbacks |-> 0]

NotifyInitialize ==
    initialize /\ Deliver(IF Len(cards) = 0 THEN fetchMoreNotifies(cards) ELSE <<>>)

NotifyMaybePreFetch ==
    \E idx \in 0 .. Len(cards) :
        /\ maybePreFetch(idx)
        /\ Deliver(IF Len(cards) - idx - 1 <= PREFETCH_THRESHOLD /\ ~isLoading
                   THEN fetchMoreNotifies(cards) ELSE <<>>)

NotifyEnableTopicMode == DoEnableTopicMode /\ Deliver(fetchMoreNotifies(cards))

NotifyDisableTopicMode == disableTopicMode /\ Deliver(<<>>)

\* refresh: notify() once the queue is cleared, then fetchMore
NotifyRefresh ==
    refresh /\ Deliver(<<CallbackArgs(<<>>, isLoading, "null")>> \o fetchMoreNotifies(<<>>))

NotifyRelatedResolves ==
    \E i \in 1 .. Len(inflight), b \in Batches :
        /\ RelatedResolves(i, b)
        /\ Deliver(IF Len(b) = 0 THEN <<>> ELSE settledNotifies)

NotifyRandomResolves == DoRandomResolves /\ Deliver(settledNotifies)

NotifyFetchRejects == DoFetchRejects /\ Deliver(settledNotifies)

DoSubscribe == \E cb \in Callbacks : subscribe(cb)
DoUnsubscribe == \E cb \in Callbacks : unsubscribe(cb)

NextNotify ==
    \/ NotifyConstruct /\ UNCHANGED nonNotifyVars
    \/ NotifyInitialize /\ UNCHANGED nonNotifyVars
    \/ NotifyMaybePreFetch /\ UNCHANGED nonNotifyVars
    \/ NotifyEnableTopicMode /\ UNCHANGED nonNotifyVars
    \/ NotifyDisableTopicMode /\ UNCHANGED nonNotifyVars
    \/ NotifyRefresh /\ UNCHANGED nonNotifyVars
    \/ NotifyRelatedResolves /\ UNCHANGED nonNotifyVars
    \/ NotifyRandomResolves /\ UNCHANGED nonNotifyVars
    \/ NotifyFetchRejects /\ UNCHANGED nonNotifyVars
    \/ DoSubscribe /\ UNCHANGED nonNotifyVars
    \/ DoUnsubscribe /\ UNCHANGED nonNotifyVars

(***************************************************************************)
(* CardImage: two <img> slots, A and B, one of them active                 *)
(***************************************************************************)
Urls == {"u1", "u2", "u3"}
Slots == {"A", "B"}
Other(slot) == IF slot = "A" THEN "B" ELSE "A"
SlotSrc(slot) == IF slot = "A" THEN slotASrc ELSE slotBSrc
SlotLoaded(slot) == IF slot = "A" THEN slotALoaded ELSE slotBLoaded

isKnownLoaded(url) == url \in loadedImageUrls

\* setSlotXSrc(url); setSlotXLoaded(ld) for slot X; the <img> starts a load
\* when its src attribute changes
SetSlot(slot, url, ld) ==
    /\ IF slot = "A"
       THEN slotASrc' = url /\ slotALoaded' = ld /\ UNCHANGED <<slotBSrc, slotBLoaded>>
       ELSE slotBSrc' = url /\ slotBLoaded' = ld /\ UNCHANGED <<slotASrc, slotALoaded>>
    /\ loadDue' = [loadDue EXCEPT ![slot] = IF url = SlotSrc(slot) THEN @ ELSE url # "null"]

\* mutant: the preloaded slot is swapped in whether or not it has loaded
SwapWhenPreloadedAlways(inactiveSlotLoaded) == TRUE

\* "Swap only if preloaded image is actually loaded"
SwapWhenPreloaded(inactiveSlotLoaded) == inactiveSlotLoaded

\* useLayoutEffect on [src]
srcLayoutEffect(s) ==
    IF s = "null"
    THEN /\ slotASrc' = "null" /\ slotBSrc' = "null"
         /\ slotALoaded' = FALSE /\ slotBLoaded' = FALSE
         /\ pendingSwapSrcRef' = "null"
         /\ prevSrcRef' = "null"
         /\ loadDue' = [x \in Slots |-> FALSE]
         /\ UNCHANGED activeSlot
    ELSE IF s = prevSrcRef
    THEN UNCHANGED <<activeSlot, slotASrc, slotBSrc, slotALoaded, slotBLoaded,
                     pendingSwapSrcRef, prevSrcRef, loadDue>>
    ELSE IF prevSrcRef = "null"
    THEN /\ SetSlot("A", s, isKnownLoaded(s))
         /\ activeSlot' = "A"
         /\ prevSrcRef' = s
         /\ UNCHANGED pendingSwapSrcRef
    ELSE LET inactiveSlot == Other(activeSlot)
             inactiveSlotSrc == SlotSrc(inactiveSlot)
             inactiveSlotLoaded == SlotLoaded(inactiveSlot)
             isCached == isKnownLoaded(s)
         IN  IF s = inactiveSlotSrc
             THEN /\ IF SwapWhenPreloaded(inactiveSlotLoaded)
                     THEN activeSlot' = inactiveSlot /\ pendingSwapSrcRef' = "null"
                     ELSE pendingSwapSrcRef' = s /\ UNCHANGED activeSlot
                  /\ prevSrcRef' = s
                  /\ UNCHANGED <<slotASrc, slotBSrc, slotALoaded, slotBLoaded, loadDue>>
             ELSE /\ SetSlot(inactiveSlot, s, isCached)
                  /\ IF isCached
                     THEN activeSlot' = inactiveSlot /\ pendingSwapSrcRef' = "null"
                     ELSE pendingSwapSrcRef' = s /\ UNCHANGED activeSlot
                  /\ prevSrcRef' = s

\* useEffect on [nextSrc, src, activeSlot], with the values of the render r
\* that scheduled it
nextSrcEffect(r) ==
    IF r.nextSrc = "null"
    THEN /\ prevNextSrcRef' = "null"
         /\ UNCHANGED <<slotASrc, slotBSrc, slotALoaded, slotBLoaded, loadDue>>
    ELSE IF r.nextSrc = prevNextSrcRef \/ r.nextSrc = r.src
    THEN UNCHANGED <<prevNextSrcRef, slotASrc, slotBSrc, slotALoaded, slotBLoaded, loadDue>>
    ELSE /\ SetSlot(Other(r.activeSlot), r.nextSrc, isKnownLoaded(r.nextSrc))
         /\ prevNextSrcRef' = r.nextSrc

RenderOf(a, s, n) == [activeSlot |-> a, src |-> s, nextSrc |-> n]

\* the parent renders the instance with new props: the src layout effect
\* runs at once, the nextSrc effect is left for after the commit
Render(s, n) ==
    /\ passive = <<>>
    /\ ~imageMounted \/ <<s, n>> # <<src, nextSrc>>
    /\ imageMounted' = TRUE
    /\ src' = s /\ nextSrc' = n
    /\ srcLayoutEffect(s)
    /\ passive' = <<RenderOf(activeSlot, s, n)>>
    /\ UNCHANGED <<prevNextSrcRef, loadedImageUrls>>
    /\ UNCHANGED nonImageVars

\* the pending nextSrc effect runs; a render with another activeSlot than the
\* one it saw has followed, and schedules the effect again
FlushPassive ==
    /\ imageMounted /\ passive # <<>>
    /\ nextSrcEffect(passive[1])
    /\ passive' = IF activeSlot # passive[1].activeSlot
                  THEN <<RenderOf(activeSlot, src, nextSrc)>> ELSE <<>>
    /\ UNCHANGED <<imageMounted, src, nextSrc, activeSlot, prevSrcRef, pendingSwapSrcRef,
                   loadedImageUrls>>
    /\ UNCHANGED nonImageVars

\* handleImageALoad / handleImageBLoad
handleImageLoad(slot) ==
    /\ imageMounted /\ loadDue[slot]
    /\ loadDue' = [loadDue EXCEPT ![slot] = FALSE]
    /\ loadedImageUrls' = IF SlotSrc(slot) # "null"
                          THEN loadedImageUrls \cup {SlotSrc(slot)} ELSE loadedImageUrls
    /\ IF slot = "A" THEN slotALoaded' = TRUE /\ UNCHANGED slotBLoaded
                     ELSE slotBLoaded' = TRUE /\ UNCHANGED slotALoaded
    /\ IF pendingSwapSrcRef # "null" /\ pendingSwapSrcRef = SlotSrc(slot)
       THEN /\ activeSlot' = slot
            /\ pendingSwapSrcRef' = "null"
            /\ passive' = IF passive = <<>> /\ activeSlot # slot
                          THEN <<RenderOf(slot, src, nextSrc)>> ELSE passive
       ELSE UNCHANGED <<activeSlot, pendingSwapSrcRef, passive>>
    /\ UNCHANGED <<imageMounted, src, nextSrc, slotASrc, slotBSrc, prevSrcRef, prevNextSrcRef>>
    /\ UNCHANGED nonImageVars

\* a CardImage that is not mounted: the values a mount starts from
ImageFresh ==
    /\ imageMounted = FALSE
    /\ src = "null" /\ nextSrc = "null"
    /\ activeSlot = "A"
    /\ slotASrc = "null" /\ slotBSrc = "null"
    /\ slotALoaded = FALSE /\ slotBLoaded = FALSE
    /\ prevSrcRef = "null" /\ prevNextSrcRef = "null" /\ pendingSwapSrcRef = "null"
    /\ loadDue = [x \in Slots |-> FALSE]
    /\ passive = <<>>

\* Card stops rendering the instance (the card has no thumbnail)
Unmount ==
    /\ imageMounted
    /\ imageMounted' = FALSE
    /\ src' = "null" /\ nextSrc' = "null"
    /\ activeSlot' = "A"
    /\ slotASrc' = "null" /\ slotBSrc' = "null"
    /\ slotALoaded' = FALSE /\ slotBLoaded' = FALSE
    /\ prevSrcRef' = "null" /\ prevNextSrcRef' = "null" /\ pendingSwapSrcRef' = "null"
    /\ loadDue' = [x \in Slots |-> FALSE]
    /\ passive' = <<>>
    /\ UNCHANGED loadedImageUrls
    /\ UNCHANGED nonImageVars

DoRender == \E s \in Urls, n \in Urls \cup {"null"} : Render(s, n)
DoImageLoad == \E slot \in Slots : handleImageLoad(slot)

NextImage ==
    \/ DoRender
    \/ FlushPassive
    \/ DoImageLoad
    \/ Unmount

(***************************************************************************)
(* Background: two <video> slots, A and B, one of them active              *)
(***************************************************************************)
VideoSlotSrc(slot) == IF slot = "A" THEN videoSlotASrc ELSE videoSlotBSrc

\* setSlotASrc(url) / setSlotBSrc(url); the <video> starts a load, and will
\* fire canplay, when its src attribute changes
SetVideoSlot(slot, url) ==
    /\ IF slot = "A"
       THEN videoSlotASrc' = url /\ UNCHANGED videoSlotBSrc
       ELSE videoSlotBSrc' = url /\ UNCHANGED videoSlotASrc
    /\ canPlayDue' = [canPlayDue EXCEPT
                         ![slot] = IF url = VideoSlotSrc(slot) THEN @ ELSE url # "null"]

\* useLayoutEffect on [configSrc]
configLayoutEffect(s) ==
    IF s = "null"
    THEN /\ videoSlotASrc' = "null" /\ videoSlotBSrc' = "null"
         /\ nextVideoReady' = FALSE
         /\ prevConfigSrcRef' = "null"
         /\ videoPendingSwapSrcRef' = "null"
         /\ canPlayDue' = [x \in Slots |-> FALSE]
         /\ UNCHANGED videoActiveSlot
    ELSE IF s = prevConfigSrcRef
    THEN UNCHANGED <<videoActiveSlot, videoSlotASrc, videoSlotBSrc, nextVideoReady,
                     prevConfigSrcRef, videoPendingSwapSrcRef, canPlayDue>>
    ELSE IF prevConfigSrcRef = "null"
    THEN /\ SetVideoSlot("A", s)
         /\ videoActiveSlot' = "A"
         /\ nextVideoReady' = FALSE
         /\ prevConfigSrcRef' = s
         /\ UNCHANGED videoPendingSwapSrcRef
    ELSE LET inactiveSlot == Other(videoActiveSlot)
             inactiveSlotSrc == VideoSlotSrc(inactiveSlot)
         IN  IF s = inactiveSlotSrc
             THEN /\ videoActiveSlot' = inactiveSlot
                  /\ nextVideoReady' = FALSE
                  /\ videoPendingSwapSrcRef' = "null"
                  /\ prevConfigSrcRef' = s
                  /\ UNCHANGED <<videoSlotASrc, videoSlotBSrc, canPlayDue>>
             ELSE /\ SetVideoSlot(inactiveSlot, s)
                  /\ videoPendingSwapSrcRef' = s
                  /\ nextVideoReady' = FALSE
                  /\ prevConfigSrcRef' = s
                  /\ UNCHANGED videoActiveSlot

\* useEffect on [nextConfigSrc, configSrc, activeSlot], with the values of
\* the render r that scheduled it
nextConfigEffect(r) ==
    IF r.nextSrc = "null"
    THEN /\ IF prevNextConfigSrcRef # "null"
            THEN nextVideoReady' = FALSE /\ prevNextConfigSrcRef' = "null"
            ELSE UNCHANGED <<nextVideoReady, prevNextConfigSrcRef>>
         /\ UNCHANGED <<videoSlotASrc, videoSlotBSrc, canPlayDue>>
    ELSE IF r.nextSrc = prevNextConfigSrcRef \/ r.nextSrc = r.src
    THEN UNCHANGED <<nextVideoReady, prevNextConfigSrcRef, videoSlotASrc, videoSlotBSrc,
                     canPlayDue>>
    ELSE /\ SetVideoSlot(Other(r.activeSlot), r.nextSrc)
         /\ nextVideoReady' = FALSE
         /\ prevNextConfigSrcRef' = r.nextSrc

\* Feed renders the instance with new props: the config layout effect runs
\* at once, the nextConfig effect is left for after the commit
VideoRender(s, n) ==
    /\ videoPassive = <<>>
    /\ <<s, n>> # <<configSrc, nextConfigSrc>>
    /\ configSrc' = s /\ nextConfigSrc' = n
    /\ configLayoutEffect(s)
    /\ videoPassive' = <<RenderOf(videoActiveSlot, s, n)>>
    /\ UNCHANGED prevNextConfigSrcRef

\* the pending nextConfig effect runs; a render with another activeSlot than
\* the one it saw has followed, and schedules the effect again
VideoFlushPassive ==
    /\ videoPassive # <<>>
    /\ nextConfigEffect(videoPassive[1])
    /\ videoPassive' = IF videoActiveSlot # videoPassive[1].activeSlot
                       THEN <<RenderOf(videoActiveSlot, configSrc, nextConfigSrc)>>
                       ELSE <<>>
    /\ UNCHANGED <<configSrc, nextConfigSrc, videoActiveSlot, prevConfigSrcRef,
                   videoPendingSwapSrcRef>>

\* handleVideoACanPlay / handleVideoBCanPlay
handleVideoCanPlay(slot) ==
    /\ canPlayDue[slot]
    /\ canPlayDue' = [canPlayDue EXCEPT ![slot] = FALSE]
    /\ IF videoActiveSlot # slot
       THEN IF videoPendingSwapSrcRef # "null" /\ videoPendingSwapSrcRef = VideoSlotSrc(slot)
            THEN /\ videoActiveSlot' = slot
                 /\ videoPendingSwapSrcRef' = "null"
                 /\ nextVideoReady' = FALSE
                 /\ videoPassive' = IF videoPassive = <<>>
                                    THEN <<RenderOf(slot, configSrc, nextConfigSrc)>>
                                    ELSE videoPassive
            ELSE /\ nextVideoReady' = TRUE
                 /\ UNCHANGED <<videoActiveSlot, videoPendingSwapSrcRef, videoPassive>>
       ELSE UNCHANGED <<videoActiveSlot, videoPendingSwapSrcRef, nextVideoReady, videoPassive>>
    /\ UNCHANGED <<configSrc, nextConfigSrc, videoSlotASrc, videoSlotBSrc, prevConfigSrcRef,
                   prevNextConfigSrcRef>>

\* a Background that has not rendered yet: the values a mount starts from
VideoFresh ==
    /\ configSrc = "null" /\ nextConfigSrc = "null"
    /\ videoActiveSlot = "A"
    /\ videoSlotASrc = "null" /\ videoSlotBSrc = "null"
    /\ nextVideoReady = FALSE
    /\ prevConfigSrcRef = "null" /\ prevNextConfigSrcRef = "null"
    /\ videoPendingSwapSrcRef = "null"
    /\ canPlayDue = [x \in Slots |-> FALSE]
    /\ videoPassive = <<>>

\* Feed returns early (loading, error or no cards) and mounts the instance
\* anew later
VideoRemount ==
    /\ ~VideoFresh
    /\ configSrc' = "null" /\ nextConfigSrc' = "null"
    /\ videoActiveSlot' = "A"
    /\ videoSlotASrc' = "null" /\ videoSlotBSrc' = "null"
    /\ nextVideoReady' = FALSE
    /\ prevConfigSrcRef' = "null" /\ prevNextConfigSrcRef' = "null"
    /\ videoPendingSwapSrcRef' = "null"
    /\ canPlayDue' = [x \in Slots |-> FALSE]
    /\ videoPassive' = <<>>

DoVideoRender == \E s \in Urls \cup {"null"}, n \in Urls \cup {"null"} : VideoRender(s, n)
DoVideoCanPlay == \E slot \in Slots : handleVideoCanPlay(slot)

NextVideo ==
    \/ DoVideoRender /\ UNCHANGED nonVideoVars
    \/ VideoFlushPassive /\ UNCHANGED nonVideoVars
    \/ DoVideoCanPlay /\ UNCHANGED nonVideoVars
    \/ VideoRemount /\ UNCHANGED nonVideoVars

(***************************************************************************)
(* Feed: three slots over the cards of the manager, and the scroll machine *)
(***************************************************************************)
CardHeight == 200               \* container.clientHeight
Abs(x) == IF x < 0 THEN -x ELSE x
snapEpsilon(h) == Max(12, (h * 12) \div 100)
\* where a scroll may stop: at a slot, or at the edge of the epsilon
\* neighbourhood of one (just outside it before, just inside it after)
ScrollPositions ==
    {0, snapEpsilon(CardHeight) + 1, CardHeight,
     2 * CardHeight - snapEpsilon(CardHeight), 2 * CardHeight}

\* keys of slot items: a card's id, and three values that are no card id
KeyNull == 0
KeyIntro == -1
KeyUndefined == -2
NoCard == [id |-> 0, fetchedAt |-> 0]
SlotItem(key, card, isIntro) == [key |-> key, card |-> card, isIntro |-> isIntro]
InitialSlots == [k \in 1 .. 3 |-> SlotItem(KeyUndefined, NoCard, FALSE)]

\* App renders <Feed> / Feed renders the scroll container
FeedRendered(cs, loading) == Len(cs) > 0 \/ loading
HasContainer(cs, loading, intro) == FeedRendered(cs, loading) /\ (Len(cs) > 0 \/ intro)

totalItems(cs, intro) == IF intro THEN Len(cs) + 1 ELSE Len(cs)
\* 0-based index into cards, as in the source; asked for items in range only
getCardAtIndex(cs, intro, index) ==
    IF intro
    THEN IF index > 0 THEN cs[index] ELSE NoCard
    ELSE cs[index + 1]
getItem(cs, intro, index) ==
    IF index < 0 \/ index >= totalItems(cs, intro) THEN SlotItem(KeyNull, NoCard, FALSE)
    ELSE IF intro /\ index = 0 THEN SlotItem(KeyIntro, NoCard, TRUE)
    ELSE SlotItem(getCardAtIndex(cs, intro, index).id, getCardAtIndex(cs, intro, index), FALSE)
SlotWindow(cs, intro, index) ==
    <<getItem(cs, intro, index - 1), getItem(cs, intro, index), getItem(cs, intro, index + 1)>>
\* setSlots(prev => ...) of the slot layout effect
setSlots(prev, cs, intro, index) ==
    LET w == SlotWindow(cs, intro, index) IN
    IF prev[1].key = w[1].key /\ prev[2].key = w[2].key /\ prev[3].key = w[3].key
    THEN prev ELSE w

RenderDeps(index, cs, intro) == [index |-> index, len |-> Len(cs), intro |-> intro]
EffectsPending ==
    /\ FeedRendered(cards, isLoading)
    /\ effectDeps # <<RenderDeps(currentIndex, cards, showIntro)>>

\* a Feed that is not mounted: the values a mount starts from
FeedFresh ==
    /\ currentIndex = 0
    /\ slots = InitialSlots
    /\ scrollTop = 0
    /\ isResettingScroll = FALSE /\ isUserInteracting = FALSE
    /\ scrollProgress = 0 /\ scrollDirection = "null"
    /\ effectDeps = <<>>

feedOnlyVars == <<showIntro, currentIndex, slots, scrollTop, isResettingScroll,
                  isUserInteracting, scrollProgress, scrollDirection, effectDeps>>

\* the manager has notified (cards', isLoading'): App unmounts <Feed>, or Feed
\* renders again, its slot layout effect runs, and a container that is
\* created anew starts at scrollTop 0
FeedRenders ==
    IF ~FeedRendered(cards', isLoading')
    THEN /\ currentIndex' = 0
         /\ slots' = InitialSlots
         /\ scrollTop' = 0
         /\ isResettingScroll' = FALSE /\ isUserInteracting' = FALSE
         /\ scrollProgress' = 0 /\ scrollDirection' = "null"
         /\ effectDeps' = <<>>
         /\ UNCHANGED showIntro
    ELSE /\ slots' = setSlots(slots, cards', showIntro, currentIndex)
         /\ scrollTop' = IF /\ HasContainer(cards, isLoading, showIntro)
                            /\ HasContainer(cards', isLoading', showIntro)
                         THEN scrollTop ELSE 0
         /\ UNCHANGED <<showIntro, currentIndex, isResettingScroll, isUserInteracting,
                        scrollProgress, scrollDirection, effectDeps>>

\* App mounts: subscribes and calls feedManager.initialize()
AppMount ==
    /\ lastOp.op = "construct"
    /\ initialize
    /\ FeedRenders

handleRefresh ==
    /\ lastOp.op # "construct"
    /\ ~EffectsPending
    /\ refresh
    /\ FeedRenders

FeedRandomResolves(i, newCards) ==
    /\ ~EffectsPending
    /\ RandomResolves(i, newCards)
    /\ FeedRenders

FeedFetchRejects(i, message) ==
    /\ ~EffectsPending
    /\ FetchRejects(i, message)
    /\ FeedRenders

scrollToMiddle(instant) ==
    /\ isResettingScroll' = TRUE
    /\ scrollTop' = CardHeight

\* mutant: the index is set, but the container is not moved back to the middle
\* slot and the reset flag is not raised
resetToMiddleAndSetIndexNoJump(nextIndex) ==
    /\ UNCHANGED <<isResettingScroll, scrollTop>>
    /\ currentIndex' = nextIndex
    /\ scrollProgress' = 0
    /\ scrollDirection' = "null"

resetToMiddleAndSetIndex(nextIndex) ==
    /\ isResettingScroll' = TRUE
    /\ scrollTop' = CardHeight
    /\ currentIndex' = nextIndex
    /\ scrollProgress' = 0
    /\ scrollDirection' = "null"

\* mutant: the "next" commit is taken at the last item too
CanAdvanceAlways(index, total) == TRUE

CanAdvance(index, total) == index < total - 1

\* mutant: the argument the Feed without an intro item passes
prefetchIndexNoIntro(direction) ==
    IF direction = "prev" THEN currentIndex - 1 ELSE currentIndex + 1

\* the argument handleScrollEnd passes to feedManager.maybePreFetch
prefetchIndex(direction) ==
    IF direction = "prev"
    THEN IF showIntro THEN Max(currentIndex - 2, 0) ELSE currentIndex - 1
    ELSE IF showIntro THEN currentIndex ELSE currentIndex + 1

\* handleScrollEnd
handleScrollEnd ==
    LET snap == snapEpsilon(CardHeight)
        atPrev == Abs(scrollTop - 0) <= snap
        atCurrent == Abs(scrollTop - CardHeight) <= snap
        atNext == Abs(scrollTop - CardHeight * 2) <= snap
        total == totalItems(cards, showIntro)
        atBound == (atPrev /\ currentIndex = 0) \/ (atNext /\ currentIndex = total - 1)
        nothing == /\ UNCHANGED feedVars
                   /\ UNCHANGED feedOnlyVars
        snapBack == /\ scrollToMiddle(FALSE)
                    /\ UNCHANGED feedVars
                    /\ UNCHANGED <<showIntro, currentIndex, slots, isUserInteracting,
                                   scrollProgress, scrollDirection, effectDeps>>
    IN
    IF isResettingScroll \/ isUserInteracting THEN nothing
    ELSE IF atPrev /\ currentIndex > 0
    THEN /\ resetToMiddleAndSetIndex(currentIndex - 1)
         /\ slots' = setSlots(slots, cards, showIntro, currentIndex - 1)
         /\ maybePreFetch(prefetchIndex("prev"))
         /\ UNCHANGED <<showIntro, isUserInteracting, effectDeps>>
    ELSE IF atNext /\ CanAdvance(currentIndex, total)
    THEN /\ resetToMiddleAndSetIndex(currentIndex + 1)
         /\ maybePreFetch(prefetchIndex("next"))
         /\ showIntro' = IF showIntro /\ currentIndex = 0 THEN FALSE ELSE showIntro
         /\ slots' = setSlots(setSlots(slots, cards, showIntro, currentIndex + 1),
                              cards, showIntro', currentIndex + 1)
         /\ UNCHANGED <<isUserInteracting, effectDeps>>
    ELSE IF ~atCurrent
    THEN IF atBound THEN snapBack ELSE nothing
    ELSE IF atBound THEN snapBack ELSE nothing

\* handleScrollEnd is called: by the container's scrollend event, or by the
\* 160 ms timer that onScroll restarts at every scroll event (the timer's own
\* test of isUserInteracting is the one handleScrollEnd makes again)
onScrollEnd ==
    /\ HasContainer(cards, isLoading, showIntro)
    /\ ~EffectsPending
    /\ handleScrollEnd

\* mutant: the scroll listener lacks the test of the reset flag
onScrollNoResetTest(pos) ==
    /\ HasContainer(cards, isLoading, showIntro)
    /\ ~EffectsPending
    /\ pos # scrollTop
    /\ scrollTop' = pos
    /\ scrollProgress' = Min((Abs(pos - CardHeight) * 100) \div CardHeight, 100)
    /\ scrollDirection' = IF pos - CardHeight > 10 THEN "down"
                          ELSE IF pos - CardHeight < -10 THEN "up" ELSE "null"
    /\ UNCHANGED <<showIntro, currentIndex, slots, isResettingScroll, isUserInteracting,
                   effectDeps>>
    /\ UNCHANGED feedVars

\* the container's scroll event, the container now being at pos
onScroll(pos) ==
    /\ HasContainer(cards, isLoading, showIntro)
    /\ ~EffectsPending
    /\ pos # scrollTop
    /\ scrollTop' = pos
    /\ IF isResettingScroll
       THEN UNCHANGED <<scrollProgress, scrollDirection>>
       ELSE /\ scrollProgress' = Min((Abs(pos - CardHeight) * 100) \div CardHeight, 100)
            /\ scrollDirection' = IF pos - CardHeight > 10 THEN "down"
                                  ELSE IF pos - CardHeight < -10 THEN "up" ELSE "null"
    /\ UNCHANGED <<showIntro, currentIndex, slots, isResettingScroll, isUserInteracting,
                   effectDeps>>
    /\ UNCHANGED feedVars

handleNext ==
    /\ ~(currentIndex >= Len(cards) - 1)
    /\ onScroll(CardHeight * 2)

handlePrevious ==
    /\ ~(currentIndex <= 0)
    /\ onScroll(0)

setInteracting(value) ==
    /\ HasContainer(cards, isLoading, showIntro)
    /\ ~EffectsPending
    /\ isUserInteracting # value
    /\ isUserInteracting' = value
    /\ UNCHANGED <<showIntro, currentIndex, slots, scrollTop, isResettingScroll,
                   scrollProgress, scrollDirection, effectDeps>>
    /\ UNCHANGED feedVars

\* the animation-frame or timer callback that ends a reset
ResetDone ==
    /\ FeedRendered(cards, isLoading)
    /\ ~EffectsPending
    /\ isResettingScroll
    /\ isResettingScroll' = FALSE
    /\ UNCHANGED <<showIntro, currentIndex, slots, scrollTop, isUserInteracting,
                   scrollProgress, scrollDirection, effectDeps>>
    /\ UNCHANGED feedVars

\* the passive effects of the last render: scrollToMiddle(true) on mount,
\* the rebase of the index when the intro has gone, the proactive prefetch
RunEffects ==
    LET mount == effectDeps = <<>>
        introChanged == mount \/ effectDeps[1].intro # showIntro
        rebase == introChanged /\ ~showIntro /\ currentIndex > 0
    IN
    /\ EffectsPending
    /\ effectDeps' = <<RenderDeps(currentIndex, cards, showIntro)>>
    /\ IF mount /\ HasContainer(cards, isLoading, showIntro)
       THEN scrollToMiddle(TRUE)
       ELSE UNCHANGED <<isResettingScroll, scrollTop>>
    /\ currentIndex' = IF rebase THEN Max(currentIndex - 1, 0) ELSE currentIndex
    /\ maybePreFetch(IF showIntro THEN Max(currentIndex - 1, 0) ELSE currentIndex)
    /\ slots' = setSlots(slots, cards, showIntro, currentIndex')
    /\ UNCHANGED <<showIntro, isUserInteracting, scrollProgress, scrollDirection>>

DoFeedRandomResolves ==
    \E i \in 1 .. Len(inflight), b \in Batches : FeedRandomResolves(i, b)
DoFeedFetchRejects ==
    \E i \in 1 .. Len(inflight), m \in RandomFailures : FeedFetchRejects(i, m)
DoOnScroll == \E pos \in ScrollPositions : onScroll(pos)
DoSetInteracting == \E value \in BOOLEAN : setInteracting(value)

NextVirt ==
    \/ AppMount /\ UNCHANGED nonVirtVars
    \/ handleRefresh /\ UNCHANGED nonVirtVars
    \/ DoFeedRandomResolves /\ UNCHANGED nonVirtVars
    \/ DoFeedFetchRejects /\ UNCHANGED nonVirtVars
    \/ DoOnScroll /\ UNCHANGED nonVirtVars
    \/ handleNext /\ UNCHANGED nonVirtVars
    \/ handlePrevious /\ UNCHANGED nonVirtVars
    \/ onScrollEnd /\ UNCHANGED nonVirtVars
    \/ DoSetInteracting /\ UNCHANGED nonVirtVars
    \/ ResetDone /\ UNCHANGED nonVirtVars
    \/ RunEffects /\ UNCHANGED nonVirtVars

(***************************************************************************)
(* Feed and FeedManager: the user's position and the prefetches            *)
(* (the slots and the scroll machine of Feed are left as they start)       *)
(***************************************************************************)
nonPrefetchVars == <<retryVars, imageVars, subVars, videoVars, batchVars, bgVars, scrollVars,
                     appVars, callVars,
                     showIntro, slots, scrollTop, isResettingScroll, isUserInteracting,
                     scrollProgress, scrollDirection>>

cardIndexOf(index, intro) == IF intro THEN Max(index - 1, 0) ELSE index

\* App keeps <Feed> while (cards.length > 0 || isLoading); a Feed mounted anew
\* starts at index 0 and runs its effects again
PositionAfterRender ==
    IF FeedRendered(cards', isLoading')
    THEN UNCHANGED <<currentIndex, effectDeps>>
    ELSE currentIndex' = 0 /\ effectDeps' = <<>>

\* App mounts and calls feedManager.initialize()
PrefetchMount ==
    /\ lastOp.op = "construct"
    /\ initialize
    /\ PositionAfterRender

\* the effect on [currentIndex, cards.length, showIntro]
PrefetchEffect ==
    /\ lastOp.op # "construct"
    /\ EffectsPending
    /\ effectDeps' = <<RenderDeps(currentIndex, cards, showIntro)>>
    /\ maybePreFetch(cardIndexOf(currentIndex, showIntro))
    /\ UNCHANGED currentIndex

\* handleScrollEnd, "swiped down to next"
ScrollToNext ==
    /\ ~EffectsPending /\ Len(cards) > 0
    /\ CanAdvance(currentIndex, totalItems(cards, showIntro))
    /\ currentIndex' = currentIndex + 1
    /\ maybePreFetch(IF showIntro THEN currentIndex ELSE currentIndex + 1)
    /\ UNCHANGED effectDeps

\* handleScrollEnd, "swiped up to previous"
ScrollToPrevious ==
    /\ ~EffectsPending /\ Len(cards) > 0
    /\ currentIndex > 0
    /\ currentIndex' = currentIndex - 1
    /\ maybePreFetch(IF showIntro THEN Max(currentIndex - 2, 0) ELSE currentIndex - 1)
    /\ UNCHANGED effectDeps

\* the topic button of the card on screen
TopicOn(title) ==
    /\ ~EffectsPending /\ Len(cards) > 0 /\ ~topicMode
    /\ enableTopicMode(title)
    /\ UNCHANGED <<currentIndex, effectDeps>>

TopicOff ==
    /\ ~EffectsPending /\ Len(cards) > 0 /\ topicMode
    /\ disableTopicMode
    /\ UNCHANGED <<currentIndex, effectDeps>>

PrefetchRefresh ==
    /\ lastOp.op # "construct" /\ ~EffectsPending
    /\ refresh
    /\ PositionAfterRender

\* the fetch in flight settles: fetchRelatedPages or fetchRandomSummaries
\* resolves, or one of them rejects
PrefetchSettles ==
    /\ ~EffectsPending
    /\ \/ DoRelatedResolves
       \/ DoRandomResolves
       \/ DoFetchRejects
    /\ PositionAfterRender

NextPrefetch ==
    \/ PrefetchMount /\ UNCHANGED nonPrefetchVars
    \/ PrefetchEffect /\ UNCHANGED nonPrefetchVars
    \/ ScrollToNext /\ UNCHANGED nonPrefetchVars
    \/ ScrollToPrevious /\ UNCHANGED nonPrefetchVars
    \/ (\E t \in Titles : TopicOn(t)) /\ UNCHANGED nonPrefetchVars
    \/ TopicOff /\ UNCHANGED nonPrefetchVars
    \/ PrefetchRefresh /\ UNCHANGED nonPrefetchVars
    \/ PrefetchSettles /\ UNCHANGED nonPrefetchVars

(***************************************************************************)
(* Feed: the scroll listeners (scrollend, the 160 ms timer) over a queue   *)
(* restored from the cache                                                 *)
(***************************************************************************)
ScrollIdle ==
    /\ scrollTimeout = FALSE
    /\ scrollEndDue = FALSE
    /\ supportsScrollEnd = FALSE
    /\ settles = <<>>

\* the queue a warm start restores
CachedQueue == MakeCards(<<1, 2>>)

\* App or Feed state has changed: Feed renders, handleScrollEnd is a new
\* function, and the cleanup of the listeners effect clears the timer
Rerendered ==
    <<cards', isLoading', error', currentIndex', showIntro'>> #
        <<cards, isLoading, error, currentIndex, showIntro>>

Settle(signal) == [signal |-> signal, moved |-> currentIndex' - currentIndex,
                   reset |-> isResettingScroll' /\ ~isResettingScroll]

\* the container is within snapEpsilon of the next / the previous slot
AtNext == Abs(scrollTop - CardHeight * 2) <= snapEpsilon(CardHeight)
AtPrev == Abs(scrollTop - 0) <= snapEpsilon(CardHeight)

TtsIdle ==
    /\ ttsState = "idle"
    /\ prefetchCalls = <<>>

\* tts.toggle, from the card's listen button
toggle ==
    ttsState' = IF ttsState = "speaking" THEN "paused" ELSE "speaking"

\* the branch handleScrollEnd takes
settleBranch ==
    IF isResettingScroll \/ isUserInteracting THEN "none"
    ELSE IF AtPrev /\ currentIndex > 0 THEN "prev"
    ELSE IF AtNext /\ CanAdvance(currentIndex, totalItems(cards, showIntro)) THEN "next"
    ELSE "none"

\* the calls handleScrollEnd makes besides the reset: tts.stop() and
\* feedManager.maybePreFetch(...)
settleCalls ==
    IF settleBranch = "none"
    THEN /\ prefetchCalls' = <<>>
         /\ UNCHANGED ttsState
    ELSE /\ prefetchCalls' = <<prefetchIndex(settleBranch)>>
         /\ ttsState' = "idle"

\* the container's scroll event: onScroll
ScrollEvent(pos) ==
    /\ onScroll(pos)
    /\ UNCHANGED callVars
    /\ scrollTimeout' = IF isResettingScroll THEN scrollTimeout ELSE TRUE
    /\ scrollEndDue' = supportsScrollEnd
    /\ settles' = <<>>
    /\ UNCHANGED supportsScrollEnd

\* the next / previous buttons: a smooth scroll to the slot
ScrollButton(next) ==
    /\ IF next THEN ~(currentIndex >= Len(cards) - 1) ELSE ~(currentIndex <= 0)
    /\ ScrollEvent(IF next THEN CardHeight * 2 ELSE 0)

\* the container's scrollend event: onScrollEnd
ScrollEndEvent ==
    /\ scrollEndDue
    /\ onScrollEnd
    /\ scrollEndDue' = FALSE
    /\ scrollTimeout' = IF Rerendered THEN FALSE ELSE scrollTimeout
    /\ settles' = Append(settles, Settle("scrollend"))
    /\ settleCalls
    /\ UNCHANGED supportsScrollEnd

\* the timer set by onScroll fires
TimerFires ==
    /\ scrollTimeout
    /\ onScrollEnd
    /\ scrollTimeout' = FALSE
    /\ settles' = Append(settles, Settle("timer"))
    /\ settleCalls
    /\ UNCHANGED <<scrollEndDue, supportsScrollEnd>>

ScrollSetInteracting(value) ==
    /\ setInteracting(value)
    /\ UNCHANGED scrollVars
    /\ UNCHANGED callVars

ScrollResetDone ==
    /\ ResetDone
    /\ UNCHANGED scrollVars
    /\ UNCHANGED callVars

ScrollAppMount ==
    /\ AppMount
    /\ UNCHANGED scrollVars
    /\ UNCHANGED callVars

ScrollRunEffects ==
    /\ RunEffects
    /\ UNCHANGED callVars
    /\ scrollTimeout' = FALSE
    /\ UNCHANGED <<scrollEndDue, supportsScrollEnd, settles>>

\* the fetch in flight settles and the manager notifies App
ScrollFetchSettles ==
    /\ DoFeedRandomResolves \/ DoFeedFetchRejects
    /\ scrollTimeout' = IF Rerendered THEN FALSE ELSE scrollTimeout
    /\ UNCHANGED <<scrollEndDue, supportsScrollEnd, settles>>
    /\ UNCHANGED callVars

\* the listen button of the current card: handleListen
ScrollListen ==
    /\ HasContainer(cards, isLoading, showIntro)
    /\ ~EffectsPending
    /\ Len(cards) > 0 /\ ~(showIntro /\ currentIndex = 0)
    /\ toggle
    /\ UNCHANGED prefetchCalls
    /\ UNCHANGED <<feedVars, virtVars, scrollVars>>

NextScroll ==
    \/ ScrollAppMount /\ UNCHANGED nonScrollVars
    \/ (\E pos \in ScrollPositions : ScrollEvent(pos)) /\ UNCHANGED nonScrollVars
    \/ (\E next \in BOOLEAN : ScrollButton(next)) /\ UNCHANGED nonScrollVars
    \/ ScrollEndEvent /\ UNCHANGED nonScrollVars
    \/ TimerFires /\ UNCHANGED nonScrollVars
    \/ (\E value \in BOOLEAN : ScrollSetInteracting(value)) /\ UNCHANGED nonScrollVars
    \/ ScrollResetDone /\ UNCHANGED nonScrollVars
    \/ ScrollRunEffects /\ UNCHANGED nonScrollVars
    \/ ScrollFetchSettles /\ UNCHANGED nonScrollVars
    \/ ScrollListen /\ UNCHANGED nonScrollVars

(***************************************************************************)
(* App: the offline banner, its Retry button and the online / offline      *)
(* events, over a queue restored from the cache                            *)
(***************************************************************************)
NoRetry == <<>>

AppOnline ==
    /\ isOffline = FALSE
    /\ beforeRetry = NoRetry

\* the window's offline event
handleOffline ==
    /\ ~isOffline
    /\ isOffline' = TRUE
    /\ UNCHANGED feedVars
    /\ UNCHANGED beforeRetry

\* the window's online event
handleOnline ==
    /\ isOffline
    /\ isOffline' = FALSE
    /\ IF Len(cards) = 0 THEN refresh ELSE UNCHANGED feedVars
    /\ UNCHANGED beforeRetry

\* the Retry button of the offline notice or of the offline banner, or the
\* Try Again button of the error screen
RetryPressed ==
    /\ \/ isOffline
       \/ error # "null" /\ Len(cards) = 0 /\ ~isOffline
    /\ refresh
    /\ beforeRetry' = IF isLoading THEN beforeRetry ELSE <<cards, cache>>
    /\ UNCHANGED isOffline

AppInitialize == initialize /\ UNCHANGED appVars
AppMaybePreFetch == DoMaybePreFetch /\ UNCHANGED appVars
AppRandomResolves == DoRandomResolves /\ ~isOffline /\ beforeRetry' = NoRetry /\ UNCHANGED isOffline
AppFetchRejects == DoFetchRejects /\ beforeRetry' = NoRetry /\ UNCHANGED isOffline

NextApp ==
    \/ handleOffline /\ UNCHANGED nonAppVars
    \/ handleOnline /\ UNCHANGED nonAppVars
    \/ RetryPressed /\ UNCHANGED nonAppVars
    \/ AppInitialize /\ UNCHANGED nonAppVars
    \/ AppMaybePreFetch /\ UNCHANGED nonAppVars
    \/ AppRandomResolves /\ UNCHANGED nonAppVars
    \/ AppFetchRejects /\ UNCHANGED nonAppVars

(***************************************************************************)
(* FeedManager.fetchMore carried by fetchWithRetry: one request of the     *)
(* batch fetchRandomSummaries makes, topic mode off                        *)
(***************************************************************************)
\* fetchRandomSummary calls fetchWithRetry for the activation in flight
FetchRequestStarts ==
    /\ inflight # <<>>
    /\ \E n \in MaxRetriesChoices : Request("random", n, 1000)

\* the attempt in flight settles: fetch answers, fails, or the timer of
\* fetchWithTimeout aborts it (the jitter of the backoff is taken at its middle)
FetchAttemptSettles ==
    \/ \E status \in Statuses : AttemptResponds(status, 500)
    \/ \E err \in Rejections : AttemptRejects(err, 500)

\* the request gave a card: the try block of fetchMore completes
FetchSucceeds ==
    /\ rpc = "done" /\ callerResult.kind = "cards"
    /\ \E i \in 1 .. Len(inflight), id \in Ids : RandomResolves(i, MakeCards(<<id>>))
    /\ UNCHANGED nonFeedVars

\* the request threw: the catch block of fetchMore runs
FetchFails ==
    /\ rpc = "done" /\ callerResult.kind = "throw"
    /\ \E i \in 1 .. Len(inflight) : FetchRejects(i, "Failed to fetch summaries")
    /\ UNCHANGED nonFeedVars

FetchConsumed ==
    /\ inflight = <<>>
    /\ NextRequest

\* the user's part: mount, scrolling, refresh
FetchUser ==
    /\ rpc = "idle"
    /\ initialize \/ DoMaybePreFetch \/ refresh
    /\ UNCHANGED nonFeedVars

NextFetch ==
    \/ FetchUser
    \/ FetchRequestStarts
    \/ FetchAttemptSettles
    \/ SleepDone
    \/ FetchSucceeds
    \/ FetchFails
    \/ FetchConsumed
    \/ DoSetOnline

(***************************************************************************)
(* Specifications                                                          *)
(***************************************************************************)
ImageInit == ImageFresh /\ loadedImageUrls = {}

VirtInit == FeedFresh /\ showIntro = FALSE

Init ==
    /\ RetryIdle /\ FeedConstructed /\ NoSubscribers /\ ImageInit /\ VideoFresh
    /\ BatchIdle /\ BackgroundsFresh /\ ScrollIdle /\ AppOnline /\ TtsIdle
    /\ VirtInit

Next ==
    \/ DoConstruct /\ UNCHANGED nonFeedVars
    \/ initialize /\ UNCHANGED nonFeedVars
    \/ DoMaybePreFetch /\ UNCHANGED nonFeedVars
    \/ DoEnableTopicMode /\ UNCHANGED nonFeedVars
    \/ disableTopicMode /\ UNCHANGED nonFeedVars
    \/ refresh /\ UNCHANGED nonFeedVars
    \/ DoRelatedResolves /\ UNCHANGED nonFeedVars
    \/ DoRandomResolves /\ UNCHANGED nonFeedVars
    \/ DoFetchRejects /\ UNCHANGED nonFeedVars

Spec == Init /\ [][Next]_vars

InitRetry ==
    /\ RetryIdle /\ FeedConstructed /\ NoSubscribers /\ ImageInit /\ VideoFresh
    /\ BatchIdle /\ BackgroundsFresh /\ ScrollIdle /\ AppOnline /\ TtsIdle
    /\ VirtInit

SpecRetry == InitRetry /\ [][NextRetry]_vars

InitImage ==
    /\ RetryIdle /\ FeedConstructed /\ NoSubscribers /\ ImageInit /\ VideoFresh
    /\ BatchIdle /\ BackgroundsFresh /\ ScrollIdle /\ AppOnline /\ TtsIdle
    /\ VirtInit

SpecImage == InitImage /\ [][NextImage]_vars

InitVirt ==
    /\ RetryIdle /\ FeedConstructed /\ NoSubscribers /\ ImageInit /\ VideoFresh
    /\ BatchIdle /\ BackgroundsFresh /\ ScrollIdle /\ AppOnline /\ TtsIdle
    /\ FeedFresh
    /\ showIntro \in BOOLEAN

SpecVirt == InitVirt /\ [][NextVirt]_vars

InitNotify ==
    /\ RetryIdle /\ FeedConstructed /\ NoSubscribers /\ ImageInit /\ VideoFresh
    /\ BatchIdle /\ BackgroundsFresh /\ ScrollIdle /\ AppOnline /\ TtsIdle
    /\ VirtInit

SpecNotify == InitNotify /\ [][NextNotify]_vars

InitVideo ==
    /\ RetryIdle /\ FeedConstructed /\ NoSubscribers /\ ImageInit /\ VideoFresh
    /\ BatchIdle /\ BackgroundsFresh /\ ScrollIdle /\ AppOnline /\ TtsIdle
    /\ VirtInit

SpecVideo == InitVideo /\ [][NextVideo]_vars


\* the browser fires canplay for every source a <video> was given, and React
\* runs the passive effects of every commit; renders come when Feed makes them
SpecVideoFair ==
    /\ InitVideo /\ [][NextVideo]_vars
    /\ WF_vars(VideoFlushPassive /\ UNCHANGED nonVideoVars)
    /\ \A slot \in Slots : WF_vars(handleVideoCanPlay(slot) /\ UNCHANGED nonVideoVars)

\* React runs the effects of every commit, and every request of the fetch layer
\* settles (fetchWithTimeout bounds each attempt, fetchWithRetry their number);
\* what the user does comes when the user does it
SpecPrefetchFair ==
    /\ InitVirt /\ [][NextPrefetch]_vars
    /\ WF_vars(PrefetchMount /\ UNCHANGED nonPrefetchVars)
    /\ WF_vars(PrefetchEffect /\ UNCHANGED nonPrefetchVars)
    /\ WF_vars(PrefetchSettles /\ UNCHANGED nonPrefetchVars)

\* a warm start: the manager is constructed from a cache that holds CachedQueue
InitScroll ==
    /\ RetryIdle /\ NoSubscribers /\ ImageInit /\ VideoFresh
    /\ BatchIdle /\ BackgroundsFresh /\ AppOnline /\ TtsIdle
    /\ cards = CachedQueue /\ seenIds = IdsOf(CachedQueue) /\ cache = CachedQueue
    /\ isLoading = FALSE /\ error = "null"
    /\ topicMode = FALSE /\ currentTopicTitle = "null"
    /\ inflight = <<>> /\ lastOp = Op("construct", FALSE, FALSE)
    /\ FeedFresh
    /\ showIntro \in BOOLEAN
    /\ scrollTimeout = FALSE /\ scrollEndDue = FALSE /\ settles = <<>>
    /\ supportsScrollEnd \in BOOLEAN

SpecScroll == InitScroll /\ [][NextScroll]_vars

\* timers and animation frames fire, pending events are delivered, React runs
\* its effects, every fetch settles, and a touch or press ends
SpecScrollFair ==
    /\ InitScroll /\ [][NextScroll]_vars
    /\ WF_vars(ScrollAppMount /\ UNCHANGED nonScrollVars)
    /\ WF_vars(ScrollEndEvent /\ UNCHANGED nonScrollVars)
    /\ WF_vars(TimerFires /\ UNCHANGED nonScrollVars)
    /\ WF_vars(ScrollResetDone /\ UNCHANGED nonScrollVars)
    /\ WF_vars(ScrollRunEffects /\ UNCHANGED nonScrollVars)
    /\ WF_vars(ScrollFetchSettles /\ UNCHANGED nonScrollVars)
    /\ WF_vars(ScrollSetInteracting(FALSE) /\ UNCHANGED nonScrollVars)

InitBatch ==
    /\ RetryIdle /\ FeedConstructed /\ NoSubscribers /\ ImageInit /\ VideoFresh
    /\ BatchIdle /\ BackgroundsFresh /\ ScrollIdle /\ AppOnline /\ TtsIdle
    /\ VirtInit

SpecBatch == InitBatch /\ [][NextBatchStep]_vars

InitBackgrounds ==
    /\ RetryIdle /\ FeedConstructed /\ NoSubscribers /\ ImageInit /\ VideoFresh
    /\ BatchIdle /\ BackgroundsFresh /\ ScrollIdle /\ AppOnline /\ TtsIdle
    /\ VirtInit

SpecBackgrounds == InitBackgrounds /\ [][NextBackgrounds]_vars

(***************************************************************************)
(* Claims about fetchWithRetry                                             *)
(***************************************************************************)
RetryableStatus(s) == s = 429 \/ (s >= 500 /\ s <= 599)

\* every attempt so far was answered with HTTP 429 or 5xx
AllTransient ==
    \A i \in 1 .. Len(answers) : answers[i][1] = "status" /\ RetryableStatus(answers[i][2])

\* the request was ended by the loop itself, not by the offline or cancellation check
EndedByLoop ==
    /\ rpc = "done"
    /\ result # Thrown("Error:No network connection")
    /\ result # Thrown("AbortError:signal")

\* C3: with maxRetries = N, a request never makes more than N+1 network
\* attempts; when every attempt is answered with 429 or 5xx, it makes exactly
\* N+1 attempts with N backoff waits and then fails to the caller of
\* fetchRandomSummary / fetchRelatedPages.
C3_RetryBound ==
    /\ fetchCalls <= maxRetries + 1
    /\ (EndedByLoop /\ answers # <<>> /\ AllTransient) =>
          /\ fetchCalls = maxRetries + 1
          /\ Len(answers) = maxRetries + 1
          /\ Len(delays) = maxRetries
          /\ result = Returned(answers[Len(answers)][2])
          /\ callerResult.kind = "throw"

C3_Witness ==
    /\ EndedByLoop /\ AllTransient
    /\ maxRetries = 2 /\ fetchCalls = 3
    /\ callerResult.kind = "throw"

\* C4: a step in which an attempt answers with a non-OK status s either
\* keeps the request going (backoff wait recorded; or, on the last attempt,
\* the exhausted loop returns) exactly when s is 429 or in 500..599, or, for
\* any other s, ends the request at once: that response is the result, no
\* delay is added and no further attempt is made; answered on the first
\* attempt, the request has made exactly one attempt and slept never.
C4_TerminalShortCircuit ==
    [][ (rpc = "fetch" /\ Len(answers') = Len(answers) + 1
         /\ answers'[Len(answers')][1] = "status"
         /\ ~ResponseOk(answers'[Len(answers')][2]))
        => LET s == answers'[Len(answers')][2] IN
           IF RetryableStatus(s)
           THEN IF attempt < maxRetries
                THEN rpc' = "sleep" /\ Len(delays') = Len(delays) + 1
                     /\ result' = NoResult
                ELSE rpc' = "done" /\ result' = Returned(s) /\ delays' = delays
           ELSE /\ rpc' = "done"
                /\ result' = Returned(s)
                /\ delays' = delays
                /\ fetchCalls' = fetchCalls
                /\ (answers = <<>> => fetchCalls' = 1 /\ delays' = <<>>)
      ]_vars

C4_Witness ==
    /\ rpc = "done" /\ maxRetries = 2
    /\ answers = << <<"status", 404>> >>
    /\ fetchCalls = 1 /\ delays = <<>>
    /\ result = Returned(404)

\* C5: a request made while the device is offline is over at once: it has
\* thrown the no-network error, made no network attempt, slept no backoff
\* delay and is still at attempt 0.
C5_OfflineShortCircuit ==
    (rpc # "idle" /\ ~onlineAtCall) =>
        /\ rpc = "done"
        /\ result = Thrown("Error:No network connection")
        /\ callerResult = Thrown("Error:No network connection")
        /\ fetchCalls = 0
        /\ delays = <<>>
        /\ attempt = 0

C5_Witness ==
    /\ rpc = "done" /\ ~onlineAtCall /\ maxRetries = 2
    /\ result = Thrown("Error:No network connection")

\* the request leaves its position in this step
RequestMoves == rpc \in {"idle", "fetch", "sleep"} /\ rpc' # rpc

\* the attempt in flight rejects with err in this step
RejectedWith(err) ==
    /\ rpc = "fetch"
    /\ Len(answers') = Len(answers) + 1
    /\ answers'[Len(answers')] = <<"error", err>>

\* C18 (as stated): once the caller's signal is triggered, before the call,
\* while an attempt is in flight or during a backoff wait, the request makes
\* no further network attempt and ends by throwing the cancellation error.
C18_CancelThrowsCancellation ==
    /\ [](aborted => rpc # "fetch")
    /\ [][ (aborted' /\ RequestMoves) =>
             /\ rpc' = "done"
             /\ fetchCalls' = fetchCalls
             /\ delays' = delays
             /\ result' = Thrown("AbortError:signal")
         ]_vars

\* C18 (amended): once the caller's signal is triggered, no attempt is in
\* flight and none is started; the next step of the request ends it without
\* a retry or a backoff wait: an attempt in flight throws the cancellation
\* error, and the check before the next attempt throws the cancellation
\* error, or the no-network error when the device is offline at that check.
C18_CancellationTerminal ==
    /\ [](aborted => rpc # "fetch")
    /\ [][ (aborted' /\ RequestMoves) =>
             /\ rpc' = "done"
             /\ fetchCalls' = fetchCalls
             /\ delays' = delays
             /\ result' = IF rpc # "fetch" /\ ~online
                           THEN Thrown("Error:No network connection")
                           ELSE Thrown("AbortError:signal")
         ]_vars

\* cancelled during the backoff wait that followed the first attempt
C18_Witness ==
    /\ rpc = "done" /\ aborted /\ maxRetries = 2
    /\ answers = << <<"status", 500>> >>
    /\ fetchCalls = 1 /\ Len(delays) = 1
    /\ result = Thrown("AbortError:signal")

C20_TransportFailureRetried ==
    [][ (\E e \in {"TypeError:fetch", "TypeError:other"} : RejectedWith(e))
        /\ attempt < maxRetries =>
            /\ rpc' = "sleep"
            /\ Len(delays') = Len(delays) + 1
            /\ result' = NoResult
      ]_vars

\* C21: the k-th backoff wait of a request (k = 0 for the first) lasts at
\* least min(baseDelay * 2^k, 30 s) and at most min(1.25 * baseDelay * 2^k,
\* 30 s), so never more than 30 s; a wait is only ever started while
\* attempts remain, never after attempt number maxRetries.
C21_BackoffBounds ==
    /\ \A i \in 1 .. Len(delays) :
          /\ delays[i] >= Min(baseDelayMs * (2 ^ (i - 1)), MAX_BACKOFF_MS)
          /\ 4 * delays[i] <= Min(5 * baseDelayMs * (2 ^ (i - 1)), 4 * MAX_BACKOFF_MS)
          /\ delays[i] <= 30000
    /\ Len(delays) <= maxRetries
    /\ rpc = "sleep" => (attempt < maxRetries /\ Len(delays) = attempt + 1)
    /\ (EndedByLoop /\ fetchCalls = maxRetries + 1) => Len(delays) = maxRetries

\* the second wait of a request with a base delay of 16 s is cut to 30 s
C21_Witness ==
    /\ baseDelayMs = 16000 /\ maxRetries = 2
    /\ Len(delays) = 2
    /\ delays[1] > 16000 /\ delays[1] <= 20000
    /\ delays[2] = 30000
    /\ rpc = "done" /\ fetchCalls = 3

\* C22: a request whose first attempt is answered with 500 or 429 and whose
\* second attempt is answered with 200 returns that second response, having
\* made exactly two attempts and slept exactly one backoff wait.
C22_RetryThenSuccess ==
    (/\ Len(answers) >= 2
     /\ answers[1] \in {<<"status", 500>>, <<"status", 429>>}
     /\ answers[2] = <<"status", 200>>) =>
        /\ rpc = "done"
        /\ result = Returned(200)
        /\ callerResult.kind = "cards"
        /\ Len(answers) = 2
        /\ fetchCalls = 2
        /\ Len(delays) = 1

C22_Witness ==
    /\ rpc = "done"
    /\ answers = << <<"status", 429>>, <<"status", 200>> >>
    /\ result = Returned(200)
    /\ fetchCalls = 2 /\ Len(delays) = 1

\* the attempt in flight is answered with status s in this step
AnsweredWith(s) ==
    /\ rpc = "fetch"
    /\ Len(answers') = Len(answers) + 1
    /\ answers'[Len(answers')] = <<"status", s>>

\* C23: when the related-pages endpoint answers 404, fetchRelatedPages
\* returns the empty list: it does not throw, and the 404 is followed by no
\* backoff wait and no further attempt.
C23_RelatedNotFoundIsEmpty ==
    [][ (caller = "related" /\ AnsweredWith(404)) =>
            /\ rpc' = "done"
            /\ result' = Returned(404)
            /\ callerResult'.kind = "empty"
            /\ fetchCalls' = fetchCalls
            /\ delays' = delays
            /\ (answers = <<>> => fetchCalls' = 1 /\ delays' = <<>>)
      ]_vars

C23_Witness ==
    /\ rpc = "done" /\ caller = "related" /\ maxRetries = 2
    /\ answers = << <<"status", 404>> >>
    /\ callerResult.kind = "empty"
    /\ fetchCalls = 1 /\ delays = <<>>

(***************************************************************************)
(* Claims about fetchRandomSummaries                                       *)
(***************************************************************************)
FulfilledCards(ps) ==
    LET ok == SelectSeq(ps, LAMBDA p : p.stage = "fulfilled")
    IN [i \in 1 .. Len(ok) |-> ok[i].card]

\* C24: fetchRandomSummaries(n) starts n single-card requests in one step,
\* all of them pending; each request settles on its own, leaving the others as
\* they are; the batch ends only when all n have settled; when k >= 1 of them
\* were fulfilled it returns exactly their k cards, in request order, and throws
\* nothing; it throws "Failed to fetch summaries" if and only if none was
\* fulfilled.
C24_PartialSuccessIsSuccess ==
    /\ [](summaries.kind # "none" =>
            /\ \A i \in 1 .. Len(promises) : Settled(promises[i])
            /\ Len(FulfilledCards(promises)) >= 1 =>
                  /\ summaries.kind = "cards"
                  /\ summaries.cards = FulfilledCards(promises)
            /\ summaries.kind = "throw" <=> Len(FulfilledCards(promises)) = 0
            /\ summaries.kind = "throw" =>
                  summaries.message = "Failed to fetch summaries")
    /\ [][/\ \A n \in 0 .. MaxBatch : fetchRandomSummaries(n) =>
                /\ Len(promises') = n
                /\ \A i \in 1 .. n : promises'[i].stage = "summary"
          /\ (promises # <<>> /\ promises' # <<>>) =>
                /\ Len(promises') = Len(promises)
                /\ Cardinality({i \in 1 .. Len(promises) :
                                    promises'[i] # promises[i]}) <= 1]_vars

\* three requests, the middle one failed, the batch returned the two other cards
C24_Witness ==
    /\ Len(promises) = 3
    /\ promises[1].stage = "fulfilled"
    /\ promises[2].stage = "rejected"
    /\ promises[3].stage = "fulfilled"
    /\ summaries.kind = "cards"
    /\ summaries.cards = <<promises[1].card, promises[3].card>>

AttributionFailures == AttributionOutcomes \ {"success"}

\* C25: whatever the imageinfo request of a card ends with, the single-card
\* request is fulfilled with the card of the summary; when the request ended in
\* a failure (non-OK status, timeout, cancellation, transport error, unreadable
\* or metadata-less payload) the card carries no imageAttribution, and no
\* attribution outcome rejects the single-card request or the batch.
C25_AttributionNeverFailsCard ==
    [][\A i \in 1 .. Len(promises), o \in AttributionOutcomes :
             AttributionSettles(i, o) =>
                /\ promises'[i].stage = "fulfilled"
                /\ promises'[i].card.id = promises[i].card.id
                /\ promises'[i].card.thumbnail = promises[i].card.thumbnail
                /\ o \in AttributionFailures =>
                      promises'[i].card.imageAttribution = "undefined"
                /\ o = "success" => promises'[i].card.imageAttribution = "present"
                /\ summaries' = summaries]_vars

\* a card with an image came back without attribution, and the batch returned it
C25_Witness ==
    /\ summaries.kind = "cards"
    /\ \E i \in 1 .. Len(summaries.cards) :
          /\ summaries.cards[i].thumbnail
          /\ summaries.cards[i].imageAttribution = "undefined"
    /\ \A i \in 1 .. Len(promises) : promises[i].stage = "fulfilled"

(***************************************************************************)
(* Claims about the background cache                                       *)
(***************************************************************************)
\* C26: every call of getBackgroundForCard for a card id returns the
\* background that the first call for that id returned, whatever happened in
\* between: calls for other ids, the video list finishing its initialization,
\* a refresh of the feed.
C26_SameBackgroundPerCard ==
    [][\A id \in Ids : \A b \in getRandomBackground :
          (getBackgroundForCard(id, b) /\ firstBackground[id] # NoBackground) =>
              backgroundCache'[id] = firstBackground[id]]_vars

\* C37: a canplay event on a slot whose src is the pending-swap target makes
\* that slot the active one and clears the pending target in the same step;
\* a canplay event on a slot whose src is not the pending target leaves the
\* active slot as it was.
C37_CanPlaySwapsPendingOnly ==
    [][ \A slot \in {"A", "B"} :
            handleVideoCanPlay(slot) =>
                IF videoPendingSwapSrcRef # "null" /\ VideoSlotSrc(slot) = videoPendingSwapSrcRef
                THEN /\ videoActiveSlot' = slot
                     /\ videoPendingSwapSrcRef' = "null"
                ELSE videoActiveSlot' = videoActiveSlot
      ]_vars

\* C38: the nextConfig effect leaves the active slot as it was, and leaves
\* the src of the slot that is active when the effect runs as it was.
C38_PreloadSparesActive ==
    [][ VideoFlushPassive =>
            /\ videoActiveSlot' = videoActiveSlot
            /\ IF videoActiveSlot = "A"
               THEN videoSlotASrc' = videoSlotASrc
               ELSE videoSlotBSrc' = videoSlotBSrc
      ]_vars

(***************************************************************************)
(* Claims about FeedManager                                                *)
(***************************************************************************)
FeedState == <<cards, seenIds, isLoading, error, topicMode, currentTopicTitle, cache,
               inflight>>

\* C1: no two cards of FeedManager.cards have the same id.
C1_NoDuplicateIds ==
    \A i, j \in 1 .. Len(cards) : i # j => cards[i].id # cards[j].id

\* C2: at most one activation of fetchMore is suspended at a source call at
\* any time, and a call of maybePreFetch made while a fetch is in flight
\* changes nothing of the manager (no further source call, no state change).
C2_AtMostOneFetch ==
    /\ [](Len(inflight) <= 1 /\ (isLoading <=> Len(inflight) = 1))
    /\ [][(lastOp'.op = "maybePreFetch" /\ isLoading) => UNCHANGED FeedState]_vars

C2_Witness ==
    /\ lastOp = Op("maybePreFetch", FALSE, TRUE)
    /\ Len(inflight) = 1
    /\ Len(cards) > 0

\* the step in which the fetch in flight fails
FetchFailedStep == lastOp'.op = "failed" /\ inflight' # inflight /\ Len(inflight) = 1

\* C9 as stated: after a failed fetch isLoading is false, error is set and
\* cards is exactly what it was when that fetch started.
C9_SequenceAsAtFetchStart ==
    [][FetchFailedStep =>
          /\ isLoading' = FALSE
          /\ error' # "null"
          /\ cards' = inflight[1].startCards]_vars

\* C9 amended: after a failed fetch isLoading is false, error is set and
\* cards is what it was just before the failure was handled: the cards of
\* the moment the fetch started, or none when refresh() emptied the queue
\* while the fetch was in flight; seenIds and the cache are untouched too.
C9_FailureKeepsCards ==
    [][FetchFailedStep =>
          /\ isLoading' = FALSE
          /\ error' # "null"
          /\ inflight' = <<>>
          /\ cards' = cards /\ seenIds' = seenIds /\ cache' = cache
          /\ (cards' = inflight[1].startCards \/ cards' = <<>>)]_vars

C9_Witness ==
    /\ lastOp.op = "failed"
    /\ Len(cards) > 0
    /\ error = "No network connection"
    /\ ~isLoading

\* C10: right after refresh() the queue is empty, error and topic filter
\* are cleared, and refresh has issued a random fetch of the initial batch
\* size for the empty sequence.
C10_RefreshRefetches ==
    lastOp.op = "refresh" =>
        /\ cards = <<>> /\ seenIds = {} /\ error = "null"
        /\ ~topicMode /\ currentTopicTitle = "null"
        /\ lastOp.started
        /\ \E i \in 1 .. Len(inflight) :
              inflight[i] = FetchActivation(INITIAL_FETCH_COUNT, FALSE, "null", <<>>)

\* C11: enableTopicMode(title) starts exactly one fetch, for the pages
\* related to title, whatever the state it is called in.
C11_EnableTopicFetches ==
    [][ \A t \in Titles : enableTopicMode(t) =>
            /\ topicMode' /\ currentTopicTitle' = t
            /\ inflight' = Append(inflight, [stage |-> "related", count |-> PREFETCH_COUNT,
                                              title |-> t, startCards |-> cards])
      ]_vars

IsPrefix(p, q) == Len(p) <= Len(q) /\ SubSeq(q, 1, Len(p)) = p

\* C12: a step of initialize, maybePreFetch, enableTopicMode,
\* disableTopicMode or the completion of a fetch (successful or failed)
\* leaves the cards it found as a prefix of the cards it leaves.
C12_AppendOnly ==
    [][ (\/ initialize \/ DoMaybePreFetch \/ DoEnableTopicMode \/ disableTopicMode
         \/ DoRelatedResolves \/ DoRandomResolves \/ DoFetchRejects)
        => IsPrefix(cards, cards') ]_vars

\* a fetch completed onto a queue in topic mode
C12_Witness ==
    /\ lastOp.op = "fetched" /\ topicMode
    /\ Len(cards) = 2 /\ cards[1].id = 1 /\ cards[2].id = 2

\* C13: maybePreFetch(index) starts a fetch of PREFETCH_COUNT cards exactly
\* when cards.length - index - 1 <= 3 and no fetch is in flight; otherwise
\* it changes nothing of the manager.
C13_PrefetchAtThreshold ==
    [][ \A idx \in 0 .. Len(cards) : maybePreFetch(idx) =>
            IF Len(cards) - idx - 1 <= 3 /\ inflight = <<>>
            THEN /\ inflight' = <<FetchActivation(PREFETCH_COUNT, topicMode,
                                                   currentTopicTitle, cards)>>
                 /\ isLoading'
                 /\ UNCHANGED <<cards, seenIds, topicMode, currentTopicTitle, cache>>
            ELSE UNCHANGED FeedState
      ]_vars

\* maybePreFetch was called with more than 3 cards ahead and nothing in flight
C13_Witness ==
    /\ lastOp = Op("maybePreFetch", FALSE, FALSE)
    /\ Len(cards) >= 5
    /\ inflight = <<>>

\* C14 (as stated): initialize() starts a fetch of INITIAL_FETCH_COUNT cards
\* exactly when cards is empty, and changes nothing when it is not.
C14_InitializeWhenEmpty ==
    [][ initialize =>
            IF Len(cards) = 0
            THEN /\ inflight' = Append(inflight, FetchActivation(INITIAL_FETCH_COUNT, topicMode,
                                                                  currentTopicTitle, cards))
                 /\ isLoading'
            ELSE UNCHANGED FeedState
      ]_vars

\* C14 (amended): initialize() starts a fetch of INITIAL_FETCH_COUNT cards
\* exactly when cards is empty and no fetch is in flight; in every other
\* state (cards restored from the cache, or a fetch in flight) it starts
\* none and changes nothing.
C14_InitializeWhenEmptyAndIdle ==
    [][ initialize =>
            IF Len(cards) = 0 /\ inflight = <<>>
            THEN /\ inflight' = <<FetchActivation(INITIAL_FETCH_COUNT, topicMode,
                                                   currentTopicTitle, cards)>>
                 /\ isLoading'
                 /\ UNCHANGED <<cards, seenIds, topicMode, currentTopicTitle, cache>>
            ELSE UNCHANGED FeedState
      ]_vars

\* initialize() ran on cards restored from the cache and started nothing
C14_Witness ==
    /\ lastOp = Op("initialize", FALSE, FALSE)
    /\ Len(cards) > 0 /\ cards = cache
    /\ inflight = <<>> /\ ~isLoading

\* C15: a fetch started while topicMode is on asks for the pages related to
\* currentTopicTitle, any other fetch for random cards; when the related
\* request resolves with no cards the same activation goes on to ask for
\* count random cards, the manager still loading and otherwise unchanged.
C15_TopicFetchAndFallback ==
    /\ [][ (Len(inflight') = Len(inflight) + 1) =>
              LET a == inflight'[Len(inflight')] IN
              IF topicMode' THEN a.stage = "related" /\ a.title = currentTopicTitle'
                            ELSE a.stage = "random"
         ]_vars
    /\ [][ \A i \in 1 .. Len(inflight) : RelatedResolves(i, <<>>) =>
              /\ inflight' = [inflight EXCEPT ![i].stage = "random"]
              /\ inflight'[i].count = inflight[i].count
              /\ isLoading'
              /\ UNCHANGED <<cards, seenIds, error, topicMode, currentTopicTitle, cache>>
         ]_vars

\* the related request of a topic fetch came back empty; the random
\* request that replaces it is in flight
C15_Witness ==
    /\ lastOp.op = "fallback"
    /\ topicMode /\ currentTopicTitle = "A"
    /\ Len(inflight) = 1
    /\ inflight[1].stage = "random" /\ inflight[1].title = "A"
    /\ inflight[1].count = PREFETCH_COUNT
    /\ isLoading

\* C16: subscribe(cb) invokes cb once, in the same turn, with the current
\* (cards, isLoading, error) and changes nothing of the manager; at the end
\* of every turn each subscriber has last been invoked with the manager's
\* current (cards, isLoading, error); only subscribers are ever invoked.
C16_SubscribersCurrent ==
    /\ [](\A cb \in Callbacks :
             /\ cb \in subscribers => delivered[cb] = CallbackArgs(cards, isLoading, error)
             /\ invoked[cb] > 0 => cb \in subscribers)
    /\ [][ \A cb \in Callbacks : (cb \notin subscribers /\ cb \in subscribers') =>
              /\ invoked'[cb] = 1
              /\ delivered'[cb] = CallbackArgs(cards, isLoading, error)
              /\ \A c \in Callbacks \ {cb} : invoked'[c] = 0
              /\ UNCHANGED FeedState
         ]_vars

\* a fetch settled with callback 1 subscribed: it was invoked once in that
\* turn, with the cards the fetch brought
C16_Witness ==
    /\ subscribers = {1}
    /\ lastOp.op = "fetched"
    /\ invoked = [cb \in Callbacks |-> IF cb = 1 THEN 1 ELSE 0]
    /\ Len(cards) > 0
    /\ delivered[1] = CallbackArgs(cards, FALSE, "null")
    /\ delivered[2] = NoDelivery

\* the longest queue the bounds allow
MaxQueue == Cardinality(Ids) * MaxBatch

\* C28: whenever the queue has n cards and the user's card is within
\* PREFETCH_THRESHOLD of its end, the queue comes to have another length,
\* unless a fetch fails; in random mode and in topic mode, whatever cards the
\* source returns.
C28_PrefetchGainsCard ==
    \A n \in 0 .. MaxQueue :
        (/\ lastOp.op # "construct"
         /\ Len(cards) = n
         /\ n - cardIndexOf(currentIndex, showIntro) - 1 <= PREFETCH_THRESHOLD)
        ~> (Len(cards) # n \/ error # "null")

\* C30: after a refresh() that found a fetch in flight (and so started none),
\* whatever happens next leaves the queue empty: the fetch that was in flight
\* when refresh() was called appends nothing to the new queue.
C30_StaleFetchDiscarded ==
    [][(lastOp.op = "refresh" /\ ~lastOp.started) => cards' = <<>>]_vars

(***************************************************************************)
(* Claims about CardImage                                                  *)
(***************************************************************************)
\* C7: whenever the active slot of a mounted CardImage changes, the slot that
\* becomes active has its loaded flag set or holds a url of loadedImageUrls
\* at that moment.
C7_SwapOnlyWhenLoaded ==
    [][(imageMounted /\ imageMounted' /\ activeSlot' # activeSlot) =>
          IF activeSlot' = "A"
          THEN slotASrc' # "null" /\ (slotALoaded' \/ slotASrc' \in loadedImageUrls')
          ELSE slotBSrc' # "null" /\ (slotBLoaded' \/ slotBSrc' \in loadedImageUrls')]_vars

\* slot B, inactive at mount, has become the active slot and shows src
C7_Witness ==
    /\ imageMounted /\ activeSlot = "B"
    /\ slotBSrc = src /\ prevSrcRef = src
    /\ slotBLoaded /\ slotBSrc \in loadedImageUrls
    /\ pendingSwapSrcRef = "null"

(***************************************************************************)
(* Claims about Background                                                 *)
(***************************************************************************)
\* C17: when Background is rendered with a video that its active slot
\* already holds, the render assigns no slot a source, starts no load and
\* leaves the active slot and the pending swap as they were, whatever the
\* video requested before.
C17_SameAsActiveIsNoOp ==
    [][ \A s \in Urls, n \in Urls \cup {"null"} :
            (VideoRender(s, n) /\ VideoSlotSrc(videoActiveSlot) = s) =>
                UNCHANGED <<videoSlotASrc, videoSlotBSrc, canPlayDue, videoActiveSlot,
                            videoPendingSwapSrcRef>>
      ]_vars

\* C27: whenever the video asked of Background is u, the active slot comes to
\* hold u, unless Background is asked for another video first; every source
\* given to a slot fires canplay (the fairness of SpecVideoFair), and a
\* nextConfig may arrive while the swap to u is still pending.
C27_TargetBecomesActive ==
    \A u \in Urls :
        (configSrc = u) ~> (VideoSlotSrc(videoActiveSlot) = u \/ configSrc # u)

\* C31: when Background is rendered with a new target that its inactive slot
\* holds, the active slot becomes that slot at once when the slot has fired
\* canplay for it; when it has not, the active slot stays and the target is
\* recorded as the pending swap.
C31_SwapWaitsForCanPlay ==
    [][ \A s \in Urls, n \in Urls \cup {"null"} :
            (/\ VideoRender(s, n)
             /\ prevConfigSrcRef # "null" /\ s # prevConfigSrcRef
             /\ VideoSlotSrc(Other(videoActiveSlot)) = s) =>
                IF canPlayDue[Other(videoActiveSlot)]
                THEN /\ videoActiveSlot' = videoActiveSlot
                     /\ videoPendingSwapSrcRef' = s
                ELSE videoActiveSlot' = Other(videoActiveSlot)
      ]_vars

(***************************************************************************)
(* Claims about Feed                                                       *)
(***************************************************************************)
\* the card and intro mark of the item at an index of the item list
\* (the intro item, when shown, followed by the cards)
ItemAt(index) ==
    IF index < 0 \/ index >= totalItems(cards, showIntro) THEN <<NoCard, FALSE>>
    ELSE IF showIntro THEN (IF index = 0 THEN <<NoCard, TRUE>> ELSE <<cards[index], FALSE>>)
    ELSE <<cards[index + 1], FALSE>>

\* C6: while Feed is rendered, its three slots hold the items at
\* currentIndex - 1, currentIndex and currentIndex + 1 of the item list, and
\* no card where that index is outside the list.
C6_SlotWindow ==
    FeedRendered(cards, isLoading) =>
        \A k \in 1 .. 3 :
            <<slots[k].card, slots[k].isIntro>> = ItemAt(currentIndex + k - 2)

WithinEpsilon(position) == Abs(scrollTop - position) <= snapEpsilon(CardHeight)
LastIndex == totalItems(cards, showIntro) - 1

\* C8: a call of handleScrollEnd made while neither isResettingScroll nor
\* isUserInteracting is set: near the next slot with currentIndex below the
\* last index it commits currentIndex + 1; near the previous slot with
\* currentIndex above 0 it commits currentIndex - 1; near the next slot at
\* the last index, or near the previous slot at index 0, currentIndex stays
\* and the container is scrolled back to the middle slot; otherwise nothing
\* changes. No call moves currentIndex by more than 1.
C8_SettleCommits ==
    [][onScrollEnd =>
          /\ Abs(currentIndex' - currentIndex) <= 1
          /\ (~isResettingScroll /\ ~isUserInteracting) =>
                IF WithinEpsilon(2 * CardHeight) /\ currentIndex < LastIndex
                THEN currentIndex' = currentIndex + 1 /\ scrollTop' = CardHeight
                ELSE IF WithinEpsilon(0) /\ currentIndex > 0
                THEN currentIndex' = currentIndex - 1 /\ scrollTop' = CardHeight
                ELSE IF \/ WithinEpsilon(2 * CardHeight) /\ currentIndex = LastIndex
                        \/ WithinEpsilon(0) /\ currentIndex = 0
                THEN currentIndex' = currentIndex /\ scrollTop' = CardHeight
                ELSE UNCHANGED <<feedVars, virtVars>>]_vars

\* a settle near the next slot has just committed index 2 from index 1: the
\* container is back at the middle slot, which shows the third card
C8_Witness ==
    /\ FeedRendered(cards, isLoading) /\ ~showIntro
    /\ currentIndex = 2 /\ Len(cards) >= 4
    /\ isResettingScroll /\ scrollTop = CardHeight
    /\ scrollProgress = 0 /\ scrollDirection = "null"
    /\ slots[2].card = cards[3]
\* C29: whenever the queue is non-empty and the effects of Feed's last render
\* have run (the one that rebases the index when the intro goes away among
\* them), Feed's currentIndex is the index of one of its items (the cards,
\* after the intro item while it is shown), also after refresh() has emptied
\* the queue and a fetch has filled it anew.
C29_IndexInRange ==
    (Len(cards) > 0 /\ ~EffectsPending) =>
        (0 <= currentIndex /\ currentIndex < totalItems(cards, showIntro))

C33_RestCommits ==
    \A k \in 0 .. Len(CachedQueue) :
        /\ (/\ effectDeps # <<>> /\ currentIndex = k /\ ~isUserInteracting
            /\ AtNext /\ CanAdvance(k, totalItems(cards, showIntro)))
           ~> (currentIndex # k \/ ~AtNext \/ isUserInteracting)
        /\ (/\ effectDeps # <<>> /\ currentIndex = k /\ ~isUserInteracting
            /\ AtPrev /\ k > 0)
           ~> (currentIndex # k \/ ~AtPrev \/ isUserInteracting)

\* C34: while the reset flag is set, a settle signal (the scrollend event or
\* the debounce timer) changes neither the index nor the scroll position nor
\* the flag, and a scroll event changes neither the progress nor the
\* direction nor the debounce timer.
C34_ResetBlocksSignals ==
    [][ isResettingScroll =>
          /\ (ScrollEndEvent \/ TimerFires) =>
                /\ currentIndex' = currentIndex
                /\ scrollTop' = scrollTop
                /\ isResettingScroll' = isResettingScroll
                /\ settles'[Len(settles')].moved = 0
                /\ ~settles'[Len(settles')].reset
          /\ (\E pos \in ScrollPositions : ScrollEvent(pos)) =>
                /\ scrollProgress' = scrollProgress
                /\ scrollDirection' = scrollDirection
                /\ scrollTimeout' = scrollTimeout
      ]_vars

\* the timer committed an item and raised the flag; the scrollend event came
\* while the flag was still up
C34_Witness ==
    /\ isResettingScroll
    /\ scrollTop = CardHeight
    /\ Len(settles) = 2
    /\ settles[1].signal = "timer" /\ settles[1].reset
    /\ settles[2] = [signal |-> "scrollend", moved |-> 0, reset |-> FALSE]

\* C36: a settle step that changes the index stops the narration and calls
\* maybePreFetch once, with the position of the newly current card: the new
\* index, minus one while the intro item is shown.
C36_CommitStopsAndPrefetches ==
    [][ ((ScrollEndEvent \/ TimerFires) /\ currentIndex' # currentIndex) =>
            /\ ttsState' = "idle"
            /\ prefetchCalls' = <<IF showIntro THEN currentIndex' - 1 ELSE currentIndex'>>
            /\ maybePreFetch(IF showIntro THEN currentIndex' - 1 ELSE currentIndex')
      ]_vars

\* the timer or the scrollend event has committed the step from the intro
\* item to the first card: the new index is 1, the argument was 0
C36_Witness ==
    /\ prefetchCalls = <<0>>
    /\ currentIndex = 1
    /\ isResettingScroll
    /\ Len(settles) = 1 /\ settles[1].moved = 1
    /\ ttsState = "idle"

InitApp ==
    /\ RetryIdle /\ NoSubscribers /\ ImageInit /\ VideoFresh
    /\ BatchIdle /\ BackgroundsFresh /\ ScrollIdle /\ AppOnline /\ TtsIdle
    /\ cards = CachedQueue /\ seenIds = IdsOf(CachedQueue) /\ cache = CachedQueue
    /\ isLoading = FALSE /\ error = "null"
    /\ topicMode = FALSE /\ currentTopicTitle = "null"
    /\ inflight = <<>> /\ lastOp = Op("construct", FALSE, FALSE)
    /\ VirtInit

SpecApp == InitApp /\ [][NextApp]_vars

(***************************************************************************)
(* Claims about App's retry                                                *)
(***************************************************************************)
\* C35: when the fetch started by a Retry fails while App is still offline,
\* and cards were shown when Retry was pressed, the feed and the persisted
\* cache hold the cards they held when Retry was pressed.
C35_RetryKeepsCards ==
    [][ (/\ AppFetchRejects
         /\ isOffline
         /\ beforeRetry # NoRetry /\ Len(beforeRetry[1]) > 0) =>
            /\ cards' = beforeRetry[1]
            /\ cache' = beforeRetry[2]
      ]_vars

\* every step the runtime owes is taken: an attempt settles (fetchWithTimeout
\* aborts it after timeoutMs at the latest), a backoff timer fires, a settled
\* promise runs its continuation
SpecFetchFair ==
    /\ Init /\ [][NextFetch]_vars
    /\ WF_vars(FetchRequestStarts)
    /\ WF_vars(FetchAttemptSettles)
    /\ WF_vars(SleepDone)
    /\ WF_vars(FetchSucceeds)
    /\ WF_vars(FetchFails)
    /\ WF_vars(FetchConsumed)

====
